---- MODULE Spec2Model ----
(***************************************************************************)
(* Verification model of the cell type mapper: the hierarchical bootstrap  *)
(* classifier (type_assignment/election.py), the CSR row iterator, the     *)
(* precompute engine and the marker selector.                              *)
(*                                                                         *)
(* The module holds one specification per subsystem.  Every specification  *)
(* moves only the variables of its subsystem; the other variables keep     *)
(* their initial value.                                                    *)
(***************************************************************************)
EXTENDS Integers, Sequences, FiniteSets, TLC

VARIABLES
    \* ---- run_type_assignment (election.py) ----
    taxonomy_tree,         \* class node -> set of its children (leaf clusters)
    bootstrap_iteration,   \* number of bootstrap iterations
    pc,                    \* "loop" | "tally" | "done"
    level_idx,             \* position in zip(level_list[:-1], level_list[1:])
    parent_idx,            \* position in parent_node_list
    i_iteration,           \* bootstrap iterations done in the current tally
    votes,                 \* votes[query row][reference row]
    corr_sum,              \* corr_sum[query row][reference row]
    result,                \* result[cell][level]
    previously_assigned,   \* previously_assigned[level][node] = cell indices
    chosen_idx,            \* cells handed to the current parent node
    assignment,            \* (assignment, probability, avg_corr) per chosen cell
    rng_draws              \* number of rng.choice calls made so far

asgVars == <<taxonomy_tree, bootstrap_iteration, pc, level_idx, parent_idx,
             i_iteration, votes, corr_sum, result, previously_assigned,
             chosen_idx, assignment, rng_draws>>

VARIABLES
    \* ---- run_type_assignment_on_h5ad_cpu and its workers (election.py) ----
    n_rows,                \* rows (cells) of the query file
    n_processors,
    chunk_size,            \* the chunk_size argument, then min(max_chunk_size, chunk_size)
    results_output_path,   \* TRUE when a results_output_path is given
    taxonomy_validity,     \* what reconcile_taxonomy_and_markers reports
    has_log,               \* TRUE when a log object is passed
    rng_seed,              \* the state the root rng was created with
    rng_state,             \* the state of the root rng
    main_pc,               \* where the parent process is
    iter_r0,               \* r0 of chunk_iterator
    process_list,          \* the workers started and not yet reaped
    workers,               \* workers[chunk_index + 1] = (pc, r0, r1, rng, assignment)
    output_list,           \* the manager list
    output_lock,           \* 0 when free, else the worker holding it
    result_files,          \* the files written under results_output_path
    returned               \* the list run_type_assignment_on_h5ad_cpu returns

h5Vars == <<n_rows, n_processors, chunk_size, results_output_path,
            taxonomy_validity, has_log, rng_seed, rng_state, main_pc, iter_r0,
            process_list, workers, output_list, output_lock, result_files,
            returned>>

\* CSRRowIterator: the fields of the iterator, the CSR arrays of the file
\* it reads, the dense matrix the file was written from, and the history of
\* the calls of __next__
VARIABLES self_n_rows, self_n_cols, self_row_chunk_size, self_r0,
          self_h5_handle, csr_file, dense_data, yielded, n_stop_iteration

itVars == <<self_n_rows, self_n_cols, self_row_chunk_size, self_r0,
            self_h5_handle, csr_file, dense_data, yielded, n_stop_iteration>>

\* precompute_summary_stats_from_h5ad_and_tree: its arguments, the rows
\* consumed so far, the accumulation buffers and the output file
VARIABLES a_data, cluster_to_input_row, rows_at_a_time, normalization,
          processed_cells, buffer_dict, pre_pc, out_file

preVars == <<a_data, cluster_to_input_row, rows_at_a_time, normalization,
             processed_cells, buffer_dict, pre_pc, out_file>>

\* select_marker_genes_v2 for one parent node, run by
\* _marker_selection_worker: the marker array, the query vocabulary, the
\* leaf pairs of the parent, the coverage counts, the genes chosen and the
\* message of the error raised
VARIABLES marker_gene_array, query_gene_names, leaf_pairs, n_per_utility,
          covered, marker_genes, sel_pc, output_dict, raised

selVars == <<marker_gene_array, query_gene_names, leaf_pairs, n_per_utility,
             covered, marker_genes, sel_pc, output_dict, raised>>

\* select_all_markers: the behemoth cutoff, the number of worker processes,
\* the queue of jobs not yet started, the job of each live worker, the
\* shared output dict, how often each parent's entry was stored, and the
\* JSON written to output_path
VARIABLES behemoth_cutoff, selector_processors, job_queue, process_dict,
          mgr_output_dict, n_stored, all_pc, output_json

allVars ==
    <<behemoth_cutoff, selector_processors, job_queue, process_dict,
      mgr_output_dict, n_stored, all_pc, output_json>>

\* create_marker_cache_from_reference_markers: the dict returned by
\* select_all_markers, the gene names of the query and of the reference
\* file, the two name-to-index dicts, the groups created so far, the
\* datasets of the output file, and the position in the function
VARIABLES marker_lookup, cache_query_names, reference_gene_names, query_name_to_int,
          reference_name_to_int, created_groups, cache_file, cache_pc

cacheVars ==
    <<marker_lookup, cache_query_names, reference_gene_names, query_name_to_int,
      reference_name_to_int, created_groups, cache_file, cache_pc>>

\* csc_to_csr_on_disk: the dense matrix behind the CSC group, the number of
\* elements the budget lets one load hold, whether there is a data array,
\* the CSC arrays, the arrays of the CSR file, the per-row count of entries
\* already placed, the next column to stream, the number of column groups
\* streamed, and the position in the function
VARIABLES x_array, max_elements, use_data_array, csc_group,
          csr_indptr, csr_data, csr_indices, slots,
          col0, n_groups, tr_pc

trVars ==
    <<x_array, max_elements, use_data_array, csc_group,
      csr_indptr, csr_data, csr_indices, slots,
      col0, n_groups, tr_pc>>

\* BinarizedBooleanArray and BackedBinarizedBooleanArray holding the same
\* bits: the packed integers of the in-memory array, the dataset of the
\* HDF5 file, the origin and the content of the block the backed array has
\* loaded, and the last operation applied to both
VARIABLES mem_data, h5_data, loaded_origin, loaded_block,
          last_op

baVars ==
    <<mem_data, h5_data, loaded_origin, loaded_block,
      last_op>>

\* run_mapping of cli/flat_mapping.py: the keys of the config, whether a
\* log path is given, the paths that can be written, what _run_mapping will
\* do, the log, the scratch directory, the files written to output_path and
\* log_path, the exception _run_mapping raised and the one leaving
\* run_mapping, the number of calls of _run_mapping, and the position in
\* the function
VARIABLES config, log_path, writable, mapping_outcome,
          log, tmp_dir, output_file, log_file,
          thrown, propagating, n_run_mapping, rm_pc

rmVars ==
    <<config, log_path, writable, mapping_outcome,
      log, tmp_dir, output_file, log_file,
      thrown, propagating, n_run_mapping, rm_pc>>

\* the marker sampling of tally_votes: the number of marker genes,
\* bootstrap_factor as a number of parts of
\* FactorDenominator, the number of iterations asked
\* for, the size of the bootstrap sample, the marker indices drawn in the
\* current iteration, the iterations done, and the position in the function
VARIABLES n_markers, bootstrap_factor, tally_iterations, n_bootstrap,
          bootstrap_idx, tally_iteration, tv_pc

tvVars ==
    <<n_markers, bootstrap_factor, tally_iterations, n_bootstrap,
      bootstrap_idx, tally_iteration, tv_pc>>

\* assemble_query_data (matching.py): its arguments, the two index lists of
\* the marker cache group of the parent, and the dict it returns
VARIABLES asm_tree, asm_parent, mean_profile_lookup, full_query_data,
          reference_markers, query_markers, asm_output, asm_pc

asmVars ==
    <<asm_tree, asm_parent, mean_profile_lookup, full_query_data,
      reference_markers, query_markers, asm_output, asm_pc>>

\* precompute_summary_stats (precompute.py) and its _summary_stats_worker
\* processes: the arguments, the division of the clusters, the parent
\* position, the workers, the manager lock, the output file and the count
\* of what was done per output row
VARIABLES ss_cluster_len, ss_n_processors, ss_rows_at_a_time, worker_division,
          ss_main_pc, ss_started, ss_joined, ss_workers,
          ss_lock, ss_writers, ss_out_file, ss_handled,
          ss_written

ssVars ==
    <<ss_cluster_len, ss_n_processors, ss_rows_at_a_time, worker_division,
      ss_main_pc, ss_started, ss_joined, ss_workers,
      ss_lock, ss_writers, ss_out_file, ss_handled,
      ss_written>>

\* AnnDataRowIterator (anndata_iterator.py): the h5ad file and the
\* arguments of the constructor, the directories under tmp_dir, the fields
\* of the iterator, the row source it reads, and the triples returned by
\* __next__
VARIABLES h5ad_is_file, x_attrs, x_n_rows, ad_row_chunk_size,
          arg_tmp_dir, scratch_dirs, self_tmp_dir, iterator_type,
          chunk_source, ad_r0, ad_yielded, ad_pc

adVars ==
    <<h5ad_is_file, x_attrs, x_n_rows, ad_row_chunk_size,
      arg_tmp_dir, scratch_dirs, self_tmp_dir, iterator_type,
      chunk_source, ad_r0, ad_yielded, ad_pc>>

\* ReferenceMarkerRunner.create_input_to_output_map (reference_markers.py):
\* the arguments, what exists on disk, the locals of the naming loop and
\* where the method is
VARIABLES precomputed_path_list, clobber, on_disk, dir_writable,
          io_idx, salt, new_path, files_to_write,
          input_to_output, io_pc

ioVars ==
    <<precomputed_path_list, clobber, on_disk, dir_writable,
      io_idx, salt, new_path, files_to_write,
      input_to_output, io_pc>>

\* TaxonomyTree as an object: the dict the caller passed to the
\* constructor, self._data, and the values the queries have handed out to
\* the caller
VARIABLES caller_data, self_data, handed_out

ttVars ==
    <<caller_data, self_data, handed_out>>

vars ==
    <<asgVars, h5Vars, itVars, preVars, selVars, allVars,
      cacheVars, trVars, baVars, rmVars, tvVars, asmVars,
      ssVars, adVars, ioVars, ttVars>>

\* what the actions of one subsystem leave alone
notAsg ==
    <<h5Vars, itVars, preVars, selVars, allVars, cacheVars,
      trVars, baVars, rmVars, tvVars, asmVars, ssVars, adVars,
      ioVars, ttVars>>
notH5 ==
    <<asgVars, itVars, preVars, selVars, allVars, cacheVars,
      trVars, baVars, rmVars, tvVars, asmVars, ssVars, adVars,
      ioVars, ttVars>>
notIt ==
    <<asgVars, h5Vars, preVars, selVars, allVars, cacheVars,
      trVars, baVars, rmVars, tvVars, asmVars, ssVars, adVars,
      ioVars, ttVars>>
notPre ==
    <<asgVars, h5Vars, itVars, selVars, allVars, cacheVars,
      trVars, baVars, rmVars, tvVars, asmVars, ssVars, adVars,
      ioVars, ttVars>>
notSel ==
    <<asgVars, h5Vars, itVars, preVars, allVars, cacheVars,
      trVars, baVars, rmVars, tvVars, asmVars, ssVars, adVars,
      ioVars, ttVars>>
notAll ==
    <<asgVars, h5Vars, itVars, preVars, selVars, cacheVars,
      trVars, baVars, rmVars, tvVars, asmVars, ssVars, adVars,
      ioVars, ttVars>>
notCache ==
    <<asgVars, h5Vars, itVars, preVars, selVars, allVars,
      trVars, baVars, rmVars, tvVars, asmVars, ssVars, adVars,
      ioVars, ttVars>>
notTr ==
    <<asgVars, h5Vars, itVars, preVars, selVars, allVars,
      cacheVars, baVars, rmVars, tvVars, asmVars, ssVars,
      adVars, ioVars, ttVars>>
notBa ==
    <<asgVars, h5Vars, itVars, preVars, selVars, allVars,
      cacheVars, trVars, rmVars, tvVars, asmVars, ssVars,
      adVars, ioVars, ttVars>>
notRm ==
    <<asgVars, h5Vars, itVars, preVars, selVars, allVars,
      cacheVars, trVars, baVars, tvVars, asmVars, ssVars,
      adVars, ioVars, ttVars>>
notTv ==
    <<asgVars, h5Vars, itVars, preVars, selVars, allVars,
      cacheVars, trVars, baVars, rmVars, asmVars, ssVars,
      adVars, ioVars, ttVars>>
notAsm ==
    <<asgVars, h5Vars, itVars, preVars, selVars, allVars,
      cacheVars, trVars, baVars, rmVars, tvVars, ssVars,
      adVars, ioVars, ttVars>>
notSs ==
    <<asgVars, h5Vars, itVars, preVars, selVars, allVars,
      cacheVars, trVars, baVars, rmVars, tvVars, asmVars,
      adVars, ioVars, ttVars>>
notAd ==
    <<asgVars, h5Vars, itVars, preVars, selVars, allVars,
      cacheVars, trVars, baVars, rmVars, tvVars, asmVars,
      ssVars, ioVars, ttVars>>
notIo ==
    <<asgVars, h5Vars, itVars, preVars, selVars, allVars,
      cacheVars, trVars, baVars, rmVars, tvVars, asmVars,
      ssVars, adVars, ttVars>>
notTt ==
    <<asgVars, h5Vars, itVars, preVars, selVars, allVars,
      cacheVars, trVars, baVars, rmVars, tvVars, asmVars,
      ssVars, adVars, ioVars>>

\* the value the variables of a subsystem keep while another one runs
IdleAssign ==
    /\ taxonomy_tree = <<>>
    /\ bootstrap_iteration = 0
    /\ pc = "idle"
    /\ level_idx = 0
    /\ parent_idx = 0
    /\ i_iteration = 0
    /\ votes = <<>>
    /\ corr_sum = <<>>
    /\ result = <<>>
    /\ previously_assigned = <<>>
    /\ chosen_idx = <<>>
    /\ assignment = <<>>
    /\ rng_draws = 0

IdleH5ad ==
    /\ n_rows = 0
    /\ n_processors = 0
    /\ chunk_size = 0
    /\ results_output_path = FALSE
    /\ taxonomy_validity = TRUE
    /\ has_log = FALSE
    /\ rng_seed = 0
    /\ rng_state = 0
    /\ main_pc = "idle"
    /\ iter_r0 = 0
    /\ process_list = <<>>
    /\ workers = <<>>
    /\ output_list = <<>>
    /\ output_lock = 0
    /\ result_files = {}
    /\ returned = <<>>

IdleIter ==
    /\ self_n_rows = 0
    /\ self_n_cols = 0
    /\ self_row_chunk_size = 0
    /\ self_r0 = 0
    /\ self_h5_handle = "None"
    /\ csr_file = <<>>
    /\ dense_data = <<>>
    /\ yielded = <<>>
    /\ n_stop_iteration = 0

IdlePrecompute ==
    /\ a_data = <<>>
    /\ cluster_to_input_row = <<>>
    /\ rows_at_a_time = 0
    /\ normalization = "None"
    /\ processed_cells = 0
    /\ buffer_dict = <<>>
    /\ pre_pc = "idle"
    /\ out_file = <<>>

IdleSelect ==
    /\ marker_gene_array = <<>>
    /\ query_gene_names = {}
    /\ leaf_pairs = {}
    /\ n_per_utility = 0
    /\ covered = <<>>
    /\ marker_genes = <<>>
    /\ sel_pc = "idle"
    /\ output_dict = <<>>
    /\ raised = "none"

IdleSelectAll ==
    /\ behemoth_cutoff = 0
    /\ selector_processors = 0
    /\ job_queue = <<>>
    /\ process_dict = <<>>
    /\ mgr_output_dict = <<>>
    /\ n_stored = <<>>
    /\ all_pc = "idle"
    /\ output_json = <<>>

IdleCache ==
    /\ marker_lookup = <<>>
    /\ cache_query_names = <<>>
    /\ reference_gene_names = <<>>
    /\ query_name_to_int = <<>>
    /\ reference_name_to_int = <<>>
    /\ created_groups = {}
    /\ cache_file = <<>>
    /\ cache_pc = "idle"

IdleTranspose ==
    /\ x_array = <<>>
    /\ max_elements = 0
    /\ use_data_array = FALSE
    /\ csc_group = <<>>
    /\ csr_indptr = <<>>
    /\ csr_data = <<>>
    /\ csr_indices = <<>>
    /\ slots = <<>>
    /\ col0 = 0
    /\ n_groups = 0
    /\ tr_pc = "idle"

IdleBinaryArray ==
    /\ mem_data = <<>>
    /\ h5_data = <<>>
    /\ loaded_origin = <<>>
    /\ loaded_block = <<>>
    /\ last_op = <<>>

IdleRunMapping ==
    /\ config = {}
    /\ log_path = "None"
    /\ writable = {}
    /\ mapping_outcome = "none"
    /\ log = <<>>
    /\ tmp_dir = "none"
    /\ output_file = <<>>
    /\ log_file = <<>>
    /\ thrown = "none"
    /\ propagating = "none"
    /\ n_run_mapping = 0
    /\ rm_pc = "idle"

IdleTally ==
    /\ n_markers = 0
    /\ bootstrap_factor = 0
    /\ tally_iterations = 0
    /\ n_bootstrap = 0
    /\ bootstrap_idx = <<>>
    /\ tally_iteration = 0
    /\ tv_pc = "idle"

IdleAssemble ==
    /\ asm_tree = <<>>
    /\ asm_parent = <<>>
    /\ mean_profile_lookup = <<>>
    /\ full_query_data = <<>>
    /\ reference_markers = <<>>
    /\ query_markers = <<>>
    /\ asm_output = <<>>
    /\ asm_pc = "idle"

IdleStats ==
    /\ ss_cluster_len = <<>>
    /\ ss_n_processors = 0
    /\ ss_rows_at_a_time = 0
    /\ worker_division = <<>>
    /\ ss_main_pc = "idle"
    /\ ss_started = 0
    /\ ss_joined = 0
    /\ ss_workers = <<>>
    /\ ss_lock = 0
    /\ ss_writers = {}
    /\ ss_out_file = <<>>
    /\ ss_handled = <<>>
    /\ ss_written = <<>>

IdleAnnData ==
    /\ h5ad_is_file = FALSE
    /\ x_attrs = <<>>
    /\ x_n_rows = 0
    /\ ad_row_chunk_size = 0
    /\ arg_tmp_dir = "None"
    /\ scratch_dirs = {}
    /\ self_tmp_dir = "None"
    /\ iterator_type = ""
    /\ chunk_source = <<>>
    /\ ad_r0 = 0
    /\ ad_yielded = <<>>
    /\ ad_pc = "idle"

IdleOutputMap ==
    /\ precomputed_path_list = <<>>
    /\ clobber = FALSE
    /\ on_disk = "absent"
    /\ dir_writable = FALSE
    /\ io_idx = 0
    /\ salt = <<>>
    /\ new_path = <<>>
    /\ files_to_write = {}
    /\ input_to_output = <<>>
    /\ io_pc = "idle"

IdleTaxonomy ==
    /\ caller_data = <<>>
    /\ self_data = <<>>
    /\ handed_out = <<>>

-----------------------------------------------------------------------------
(* Generic helpers *)

Range(f) == {f[x] : x \in DOMAIN f}

RECURSIVE SumSeq(_)
SumSeq(s) == IF s = <<>> THEN 0 ELSE Head(s) + SumSeq(Tail(s))

Max2(a, b) == IF a >= b THEN a ELSE b
Min2(a, b) == IF a <= b THEN a ELSE b

\* ceil(a / b) for a >= 0, b >= 1
CeilDiv(a, b) == (a + b - 1) \div b

-----------------------------------------------------------------------------
(* Bounds of the classifier model *)

NCells == 2
MaxIter == 2


-----------------------------------------------------------------------------
(* Taxonomy: hierarchy ['class', 'cluster'] over named nodes *)

hierarchy == <<"class", "cluster">>
ClassNodes == {"A", "B"}
LeafNodes == {"a1", "a2", "b1"}

\* the string order list.sort() uses
NameOrder == <<"A", "B", "a1", "a2", "b1">>
Rank(n) == CHOOSE i \in 1..Len(NameOrder) : NameOrder[i] = n

RECURSIVE SortNames(_)
SortNames(S) ==
    IF S = {} THEN <<>>
    ELSE LET first == CHOOSE n \in S : \A m \in S : Rank(n) <= Rank(m)
         IN  <<first>> \o SortNames(S \ {first})

\* the taxonomies the model draws from: the leaves in use are spread over
\* the class nodes in every way; every class node kept has >= 1 child
LeafSetChoices == {{"a1"}, {"a1", "a2"}, LeafNodes}
TreeChoices ==
    { [c \in {lp[l] : l \in DOMAIN lp} |-> {l \in DOMAIN lp : lp[l] = c}] :
        lp \in UNION { [used -> ClassNodes] : used \in LeafSetChoices } }

\* correlations are kept in units of 1/CorrScale; the correlation a query
\* row has with its nearest neighbour is CorrOfRow(neighbour)/CorrScale
CorrScale == Cardinality(LeafNodes)
CorrOfRow(r) == r

\* level_list = [None] + list(hierarchy)
level_list == <<"None">> \o hierarchy

\* TaxonomyTree.nodes_at_level
nodes_at_level(tree, this_level) ==
    IF this_level = "class" THEN DOMAIN tree
    ELSE UNION {tree[c] : c \in DOMAIN tree}

\* TaxonomyTree.children: the immediate children of a node
children(tree, level, node) ==
    IF level = "None" THEN DOMAIN tree
    ELSE IF level = "class" THEN tree[node]
    ELSE {}

\* convert_tree_to_leaves: the leaves that descend from a node
as_leaves(tree, level, node) ==
    IF level = "class" THEN tree[node] ELSE {node}

-----------------------------------------------------------------------------
(* run_type_assignment: the loop over (parent_level, child_level) and over *)
(* the parent nodes of a level                                             *)

parent_level == level_list[level_idx]
child_level == level_list[level_idx + 1]

\* parent_node_list: [None] at the root, else the sorted nodes of the level
parent_node_list(tree, lev) ==
    IF lev = "None" THEN <<"None">>
    ELSE SortNames(nodes_at_level(tree, lev))

parent_node == parent_node_list(taxonomy_tree, parent_level)[parent_idx]

LoopRunning == pc = "loop" /\ level_idx < Len(level_list)

\* the cells that were assigned to the current parent (all cells at the
\* root; a node absent from previously_assigned has no cells)
AllCells == [i \in 1..NCells |-> i]
ChosenIdxAll(lev, node, prev) == AllCells
ChosenIdx(lev, node, prev) ==
    IF lev = "None" THEN AllCells ELSE prev[lev][node]

possible_children == children(taxonomy_tree, parent_level, parent_node)

\* for parent_node in parent_node_list / for parent_level, child_level
AdvanceLoop ==
    IF parent_idx < Len(parent_node_list(taxonomy_tree, parent_level))
    THEN /\ parent_idx' = parent_idx + 1
         /\ level_idx' = level_idx
    ELSE /\ parent_idx' = 1
         /\ level_idx' = level_idx + 1

-----------------------------------------------------------------------------
(* assemble_query_data: one reference row per leaf under the parent's      *)
(* immediate children, rows sorted by leaf name                            *)

ReferenceLeavesOnePerChild(tree, lev, node) ==
    LET clev == IF lev = "None" THEN "class" ELSE "cluster"
    IN  SortNames({CHOOSE l \in as_leaves(tree, clev, c) : TRUE :
                      c \in children(tree, lev, node)})
ReferenceLeaves(tree, lev, node) ==
    LET clev == IF lev = "None" THEN "class" ELSE "cluster"
    IN  SortNames(UNION {as_leaves(tree, clev, c) : c \in children(tree, lev, node)})

\* reference_types[i]: the immediate child the i-th leaf descends from
reference_types(tree, lev, node) ==
    LET clev == IF lev = "None" THEN "class" ELSE "cluster"
        leaves == ReferenceLeaves(tree, lev, node)
    IN  [i \in 1..Len(leaves) |->
            CHOOSE c \in children(tree, lev, node) :
                leaves[i] \in as_leaves(tree, clev, c)]

-----------------------------------------------------------------------------
(* tally_votes and choose_node *)

ZeroTable(n_query, n_ref) == [q \in 1..n_query |-> [r \in 1..n_ref |-> 0]]

\* votes[query_idx, nearest_neighbors] += 1
AddVotesAllRows(v, nn) ==
    [q \in DOMAIN v |->
        [r \in DOMAIN v[q] |-> IF r \in Range(nn) THEN v[q][r] + 1 ELSE v[q][r]]]
AddVotes(v, nn) ==
    [q \in DOMAIN v |->
        [r \in DOMAIN v[q] |-> IF r = nn[q] THEN v[q][r] + 1 ELSE v[q][r]]]

\* corr_sum[query_idx, nearest_neighbors] += corr_values
AddCorr(cs, nn, cv) ==
    [q \in DOMAIN cs |->
        [r \in DOMAIN cs[q] |-> IF r = nn[q] THEN cs[q][r] + cv[q] ELSE cs[q][r]]]

\* np.argmax: the first index holding the maximum
ArgMaxLast(row) ==
    CHOOSE i \in DOMAIN row :
        /\ \A j \in DOMAIN row : row[j] <= row[i]
        /\ \A j \in DOMAIN row : j > i => row[j] < row[i]
ArgMax(row) ==
    CHOOSE i \in DOMAIN row :
        /\ \A j \in DOMAIN row : row[j] <= row[i]
        /\ \A j \in DOMAIN row : j < i => row[j] < row[i]

\* choose_node: winner, vote fraction n_votes / bootstrap_iteration and
\* average correlation corr_sum / n_votes, per query row (fractions are
\* kept as <<numerator, denominator>>)
ChooseNode(v, cs, types, n_iter) ==
    [q \in DOMAIN v |->
        LET chosen_type == ArgMax(v[q])
            n_votes == v[q][chosen_type]
        IN  [assignment |-> types[chosen_type],
             bootstrapping_probability |-> <<n_votes, n_iter>>,
             avg_correlation |-> <<cs[q][chosen_type], n_votes * CorrScale>>]]

\* the single-child case: probability 1.0 and correlation 1.0
TrivialAssignmentZero(only_child, n) ==
    [q \in 1..n |-> [assignment |-> only_child,
                     bootstrapping_probability |-> <<0, 1>>,
                     avg_correlation |-> <<1, 1>>]]
TrivialAssignment(only_child, n) ==
    [q \in 1..n |-> [assignment |-> only_child,
                     bootstrapping_probability |-> <<1, 1>>,
                     avg_correlation |-> <<1, 1>>]]

NoneResult == [assignment |-> "None",
               bootstrapping_probability |-> <<0, 1>>,
               avg_correlation |-> <<0, 1>>]

-----------------------------------------------------------------------------
(* Actions of run_type_assignment *)

InitAssign ==
    /\ taxonomy_tree \in TreeChoices
    /\ bootstrap_iteration \in 1..MaxIter
    /\ pc = "loop"
    /\ level_idx = 1
    /\ parent_idx = 1
    /\ i_iteration = 0
    /\ votes = <<>>
    /\ corr_sum = <<>>
    /\ result = [c \in 1..NCells |-> [lev \in Range(hierarchy) |-> NoneResult]]
    /\ previously_assigned =
          [lev \in Range(hierarchy) |->
              [n \in nodes_at_level(taxonomy_tree, lev) |-> <<>>]]
    /\ chosen_idx = <<>>
    /\ assignment = <<>>
    /\ rng_draws = 0
    /\ IdleH5ad
    /\ IdleIter
    /\ IdlePrecompute
    /\ IdleSelect
    /\ IdleSelectAll
    /\ IdleCache
    /\ IdleTranspose
    /\ IdleBinaryArray
    /\ IdleRunMapping
    /\ IdleTally
    /\ IdleAssemble
    /\ IdleStats
    /\ IdleAnnData
    /\ IdleOutputMap
    /\ IdleTaxonomy

\* if len(chosen_idx) == 0: continue
SkipParent ==
    /\ LoopRunning
    /\ ChosenIdx(parent_level, parent_node, previously_assigned) = <<>>
    /\ chosen_idx' = <<>>
    /\ AdvanceLoop
    /\ UNCHANGED <<taxonomy_tree, bootstrap_iteration, pc, i_iteration, votes,
                   corr_sum, result, previously_assigned, assignment, rng_draws>>
    /\ UNCHANGED notAsg

\* elif len(possible_children) == 1
TrivialAssign ==
    /\ LoopRunning
    /\ ChosenIdx(parent_level, parent_node, previously_assigned) # <<>>
    /\ Cardinality(possible_children) = 1
    /\ chosen_idx' = ChosenIdx(parent_level, parent_node, previously_assigned)
    /\ assignment' = TrivialAssignment(CHOOSE c \in possible_children : TRUE,
                                       Len(chosen_idx'))
    /\ pc' = "record"
    /\ UNCHANGED <<taxonomy_tree, bootstrap_iteration, level_idx, parent_idx,
                   i_iteration, votes, corr_sum, result, previously_assigned,
                   rng_draws>>
    /\ UNCHANGED notAsg

\* if len(possible_children) > 1: _run_type_assignment up to the first
\* bootstrap iteration of tally_votes
StartTally ==
    /\ LoopRunning
    /\ ChosenIdx(parent_level, parent_node, previously_assigned) # <<>>
    /\ Cardinality(possible_children) > 1
    /\ chosen_idx' = ChosenIdx(parent_level, parent_node, previously_assigned)
    /\ LET n_ref == Len(ReferenceLeaves(taxonomy_tree, parent_level, parent_node))
       IN  /\ votes' = ZeroTable(Len(chosen_idx'), n_ref)
           /\ corr_sum' = ZeroTable(Len(chosen_idx'), n_ref)
    /\ i_iteration' = 0
    /\ pc' = "tally"
    /\ UNCHANGED <<taxonomy_tree, bootstrap_iteration, level_idx, parent_idx,
                   result, previously_assigned, assignment, rng_draws>>
    /\ UNCHANGED notAsg

\* one bootstrap iteration: rng.choice, correlation_nearest_neighbors (any
\* reference row may be the nearest neighbour of a query row), and the vote
\* of that iteration
TallyIteration ==
    /\ pc = "tally"
    /\ i_iteration < bootstrap_iteration
    /\ \E nn \in [DOMAIN votes -> DOMAIN votes[1]] :
          /\ votes' = AddVotes(votes, nn)
          /\ corr_sum' = AddCorr(corr_sum, nn, [q \in DOMAIN nn |-> CorrOfRow(nn[q])])
    /\ i_iteration' = i_iteration + 1
    /\ rng_draws' = rng_draws + 1
    /\ UNCHANGED <<taxonomy_tree, bootstrap_iteration, pc, level_idx, parent_idx,
                   result, previously_assigned, chosen_idx, assignment>>
    /\ UNCHANGED notAsg

\* choose_node after the last iteration
ChooseNodeStep ==
    /\ pc = "tally"
    /\ i_iteration = bootstrap_iteration
    /\ assignment' = ChooseNode(votes, corr_sum,
                                reference_types(taxonomy_tree, parent_level, parent_node),
                                bootstrap_iteration)
    /\ pc' = "record"
    /\ UNCHANGED <<taxonomy_tree, bootstrap_iteration, level_idx, parent_idx,
                   i_iteration, votes, corr_sum, result, previously_assigned,
                   chosen_idx, rng_draws>>
    /\ UNCHANGED notAsg

\* the rows of chosen_idx whose assignment is celltype, in order
RECURSIVE AssignedThis(_, _, _)
AssignedThis(idx, asg, celltype) ==
    IF idx = <<>> THEN <<>>
    ELSE (IF Head(asg).assignment = celltype THEN <<Head(idx)>> ELSE <<>>)
         \o AssignedThis(Tail(idx), Tail(asg), celltype)

\* result[i_cell][child_level] = {...} for i_cell in chosen_idx
RecordResultEveryCell(res, idx, asg, lev) ==
    [c \in DOMAIN res |-> [res[c] EXCEPT ![lev] = asg[1]]]
RecordResult(res, idx, asg, lev) ==
    [c \in DOMAIN res |->
        IF \E k \in DOMAIN idx : idx[k] = c
        THEN [res[c] EXCEPT ![lev] =
                 asg[CHOOSE k \in DOMAIN idx : idx[k] = c]]
        ELSE res[c]]

\* populate previously_assigned[child_level] and result[i_cell][child_level]
Record ==
    /\ pc = "record"
    /\ previously_assigned' =
          [previously_assigned EXCEPT ![child_level] =
              [n \in DOMAIN @ |->
                  IF \E k \in DOMAIN assignment : assignment[k].assignment = n
                  THEN AssignedThis(chosen_idx, assignment, n)
                  ELSE @[n]]]
    /\ result' = RecordResult(result, chosen_idx, assignment, child_level)
    /\ AdvanceLoop
    /\ pc' = "loop"
    \* votes and corr_sum are locals of tally_votes; chosen_idx and assignment
    \* are overwritten before the next read
    /\ votes' = <<>>
    /\ corr_sum' = <<>>
    /\ chosen_idx' = <<>>
    /\ assignment' = <<>>
    /\ i_iteration' = 0
    /\ UNCHANGED <<taxonomy_tree, bootstrap_iteration, rng_draws>>
    /\ UNCHANGED notAsg

\* return result
ReturnResult ==
    /\ pc = "loop"
    /\ level_idx = Len(level_list)
    /\ pc' = "done"
    /\ UNCHANGED <<taxonomy_tree, bootstrap_iteration, level_idx, parent_idx,
                   i_iteration, votes, corr_sum, result, previously_assigned,
                   chosen_idx, assignment, rng_draws>>
    /\ UNCHANGED notAsg

NextAssign ==
    \/ SkipParent
    \/ TrivialAssign
    \/ StartTally
    \/ TallyIteration
    \/ ChooseNodeStep
    \/ Record
    \/ ReturnResult

SpecAssign == InitAssign /\ [][NextAssign]_vars

-----------------------------------------------------------------------------
(* Properties of run_type_assignment                                       *)

Assigned(c, lev) == result[c][lev].assignment # "None"

\* the node a cell was assigned at the level above hierarchy[i] ("None" at
\* the first level, where the parent is the root)
PreviousNode(c, i) == IF i = 1 THEN "None" ELSE result[c][hierarchy[i - 1]].assignment

FracInUnitInterval(p) == p[2] > 0 /\ 0 <= p[1] /\ p[1] <= p[2]
FracIsOne(p) == p[2] > 0 /\ p[1] = p[2]

\* C1: at every level the node assigned to a cell is an immediate child of
\* the node assigned to it one level up (of the root at the first level);
\* no cell has an assignment below a level where it has none.
C1_AssignedToChildOfPrevious ==
    \A c \in 1..NCells : \A i \in 1..Len(hierarchy) :
        Assigned(c, hierarchy[i]) =>
            /\ i > 1 => Assigned(c, hierarchy[i - 1])
            /\ result[c][hierarchy[i]].assignment \in
                   children(taxonomy_tree, level_list[i], PreviousNode(c, i))

\* two cells went to different classes and both reached the leaf level
C1_Witness ==
    /\ pc = "done"
    /\ \A c \in 1..NCells : Assigned(c, "cluster")
    /\ \E c, d \in 1..NCells :
          result[c]["class"].assignment # result[d]["class"].assignment

\* C2: at a parent with more than one child the votes of every query row
\* sum to the number of iterations run (to bootstrap_iteration when
\* tally_votes returns), and every bootstrapping_probability lies in [0, 1].
C2_VotesSumAndProbabilityBounds ==
    /\ pc = "tally" => \A q \in DOMAIN votes : SumSeq(votes[q]) = i_iteration
    /\ (pc = "record" /\ votes # <<>>) =>
           \A q \in DOMAIN votes : SumSeq(votes[q]) = bootstrap_iteration
    /\ \A k \in DOMAIN assignment :
           FracInUnitInterval(assignment[k].bootstrapping_probability)
    /\ \A c \in 1..NCells : \A i \in 1..Len(hierarchy) :
           Assigned(c, hierarchy[i]) =>
               FracInUnitInterval(result[c][hierarchy[i]].bootstrapping_probability)

\* choose_node has returned for two query rows whose votes are split
C2_Witness ==
    /\ pc = "record"
    /\ Len(votes) = 2
    /\ bootstrap_iteration = MaxIter
    /\ \E r \in DOMAIN votes[1] : votes[1][r] > 0 /\ votes[1][r] < bootstrap_iteration
    /\ votes[1] # votes[2]

\* the number of iterations in which the nearest neighbour of query row q
\* was a leaf of child c
ChildVotes(q, c) ==
    LET types == reference_types(taxonomy_tree, parent_level, parent_node)
    IN  SumSeq([r \in DOMAIN votes[q] |-> IF types[r] = c THEN votes[q][r] ELSE 0])

\* C3: votes are counted per child of the parent: the assigned node is the
\* child most iterations selected and bootstrapping_probability is that
\* child's share of the iterations, also when a child has several leaves.
C3_VotesCountedPerChild ==
    (pc = "record" /\ votes # <<>>) =>
        \A q \in DOMAIN assignment :
            LET w == assignment[q].assignment
            IN  /\ \A c \in possible_children : ChildVotes(q, c) <= ChildVotes(q, w)
                /\ assignment[q].bootstrapping_probability =
                       <<ChildVotes(q, w), bootstrap_iteration>>

\* the parents before the current loop position that ran a bootstrap vote
TalliedParents ==
    { jk \in (1..Len(hierarchy)) \X (1..Cardinality(ClassNodes)) :
        /\ jk[2] <= Len(parent_node_list(taxonomy_tree, level_list[jk[1]]))
        /\ jk[1] < level_idx \/ (jk[1] = level_idx /\ jk[2] < parent_idx)
        /\ LET node == parent_node_list(taxonomy_tree, level_list[jk[1]])[jk[2]]
           IN  /\ ChosenIdx(level_list[jk[1]], node, previously_assigned) # <<>>
               /\ Cardinality(children(taxonomy_tree, level_list[jk[1]], node)) > 1 }

\* the loop has finished with parent node pnode of level_list[i]
ParentDone(i, pnode) ==
    \/ i < level_idx
    \/ /\ i = level_idx
       /\ \E k \in 1..(parent_idx - 1) :
             parent_node_list(taxonomy_tree, level_list[i])[k] = pnode

\* C4: every cell of a parent with exactly one child (the root included) is
\* assigned to that child with probability 1.0 and correlation 1.0, and the
\* RNG is drawn from only in the votes of parents with several children.
C4_SingleChildTrivial ==
    /\ \A c \in 1..NCells : \A i \in 1..Len(hierarchy) :
          LET pnode == PreviousNode(c, i)
              kids == children(taxonomy_tree, level_list[i], pnode)
          IN  (/\ i > 1 => Assigned(c, hierarchy[i - 1])
               /\ ParentDone(i, pnode)
               /\ Cardinality(kids) = 1) =>
                  /\ result[c][hierarchy[i]].assignment \in kids
                  /\ FracIsOne(result[c][hierarchy[i]].bootstrapping_probability)
                  /\ FracIsOne(result[c][hierarchy[i]].avg_correlation)
    /\ rng_draws = bootstrap_iteration * Cardinality(TalliedParents)
                   + (IF pc = "tally" THEN i_iteration
                      ELSE IF pc = "record" /\ votes # <<>> THEN bootstrap_iteration
                      ELSE 0)

\* a run that voted at the root and then passed a class with one child
C4_Witness ==
    /\ pc = "done"
    /\ rng_draws > 0
    /\ \E c \in 1..NCells :
          /\ Assigned(c, "class")
          /\ Cardinality(taxonomy_tree[result[c]["class"].assignment]) = 1
          /\ Assigned(c, "cluster")

-----------------------------------------------------------------------------
(* run_type_assignment_on_h5ad_cpu: the parent process that reads the      *)
(* query file in row chunks and starts one worker process per chunk, and   *)
(* _run_type_assignment_on_h5ad_worker                                     *)

MaxQueryRows == 3
MaxProcessors == 2
MaxChunkSize == 2
MaxSeed == 1

\* the root generator: a deterministic step function on a finite state
\* space stands for the bit generator behind rng.integers
RngModulus == 7
RngStep(s) == (5 * s + 3) % RngModulus

\* rng.integers(99, 2**32): the lowest seed a worker can get
SeedLow == 99

\* np.random.default_rng(rng.integers(99, 2**32)): the generator handed to
\* a worker and the root generator after the draw
SpawnRngShared(s) == [child |-> s, parent |-> s]
SpawnRng(s) == [child |-> SeedLow + RngStep(s), parent |-> RngStep(s)]

\* log.error(msg) of the command log records the message and raises
LogErrorRaises == TRUE

\* if not taxonomy_validity: log.error(full_msg) or raise RuntimeError
TaxonomyCheckIgnored(validity, log_given) == FALSE
TaxonomyCheckFails(validity, log_given) ==
    ~validity /\ (IF log_given THEN LogErrorRaises ELSE TRUE)

\* max_chunk_size = max(1, ceil(n_rows/n_processors));
\* chunk_size = min(max_chunk_size, chunk_size)
EffectiveChunkSize(rows, procs, size) ==
    Min2(Max2(1, CeilDiv(rows, procs)), size)

\* query_cell_names[r0:r1]; the name of a cell is its row number
NameChunk(r0, r1) == [i \in 1..(r1 - r0) |-> r0 + i - 1]

\* the worker's assignment list: run_type_assignment on the chunk with the
\* worker's generator (a result is determined by the row and the generator),
\* then assignment[idx]['cell_id'] = query_cell_names[idx]
WorkerAssignment(r0, r1, rng) ==
    [i \in 1..(r1 - r0) |-> [cell_id |-> NameChunk(r0, r1)[i], rng |-> rng]]

\* winnow_process_list: drop the processes that have exited
RECURSIVE WinnowProcessList(_, _)
WinnowProcessList(plist, w) ==
    IF plist = <<>> THEN <<>>
    ELSE (IF w[Head(plist)].pc = "exited" THEN <<>> ELSE <<Head(plist)>>)
         \o WinnowProcessList(Tail(plist), w)

\* while len(process_list) >= n_processors
PoolFullLate(plist, procs) == Len(plist) > procs
PoolFull(plist, procs) == Len(plist) >= procs

\* while len(process_list) > 0: the final join is over
FinalJoinSkipped(plist) == TRUE
FinalJoinDone(plist) == Len(plist) = 0

InitH5ad ==
    /\ n_rows \in 0..MaxQueryRows
    /\ n_processors \in 1..MaxProcessors
    /\ chunk_size \in 1..MaxChunkSize
    /\ results_output_path \in BOOLEAN
    /\ taxonomy_validity \in BOOLEAN
    /\ has_log \in BOOLEAN
    /\ rng_seed \in 0..MaxSeed
    /\ rng_state = rng_seed
    /\ main_pc \in {"start", "gpu_loop"}
    /\ iter_r0 = 0
    /\ process_list = <<>>
    /\ workers = <<>>
    /\ output_list = <<>>
    /\ output_lock = 0
    /\ result_files = {}
    /\ returned = <<>>
    /\ IdleAssign
    /\ IdleIter
    /\ IdlePrecompute
    /\ IdleSelect
    /\ IdleSelectAll
    /\ IdleCache
    /\ IdleTranspose
    /\ IdleBinaryArray
    /\ IdleRunMapping
    /\ IdleTally
    /\ IdleAssemble
    /\ IdleStats
    /\ IdleAnnData
    /\ IdleOutputMap
    /\ IdleTaxonomy

\* reconcile_taxonomy_and_markers found the tree and the markers inconsistent
RaiseInvalidTaxonomy ==
    /\ main_pc = "start"
    /\ TaxonomyCheckFails(taxonomy_validity, has_log)
    /\ main_pc' = "failed"
    /\ UNCHANGED <<n_rows, n_processors, chunk_size, results_output_path,
                   taxonomy_validity, has_log, rng_seed, rng_state, iter_r0,
                   process_list, workers, output_list, output_lock,
                   result_files, returned>>
    /\ UNCHANGED notH5

\* read obs, fix chunk_size, open the chunk iterator, create list and lock
Setup ==
    /\ main_pc = "start"
    /\ ~TaxonomyCheckFails(taxonomy_validity, has_log)
    /\ chunk_size' = EffectiveChunkSize(n_rows, n_processors, chunk_size)
    /\ main_pc' = "iterate"
    /\ UNCHANGED <<n_rows, n_processors, results_output_path,
                   taxonomy_validity, has_log, rng_seed, rng_state, iter_r0,
                   process_list, workers, output_list, output_lock,
                   result_files, returned>>
    /\ UNCHANGED notH5

\* for chunk in chunk_iterator: draw the worker's generator, start the
\* worker and append it to process_list
StartWorker ==
    /\ main_pc = "iterate"
    /\ iter_r0 < n_rows
    /\ LET r0 == iter_r0
           r1 == Min2(n_rows, iter_r0 + chunk_size)
           spawn == SpawnRng(rng_state)
       IN  /\ iter_r0' = r1
           /\ rng_state' = spawn.parent
           /\ workers' = Append(workers, [pc |-> "started", r0 |-> r0, r1 |-> r1,
                                          rng |-> spawn.child, assignment |-> <<>>])
           /\ process_list' = Append(process_list, Len(workers) + 1)
           /\ main_pc' = IF PoolFull(process_list', n_processors)
                         THEN "winnow" ELSE "iterate"
    /\ UNCHANGED <<n_rows, n_processors, chunk_size, results_output_path,
                   taxonomy_validity, has_log, rng_seed, output_list,
                   output_lock, result_files, returned>>
    /\ UNCHANGED notH5

\* while len(process_list) >= n_processors: winnow_process_list
WinnowInLoop ==
    /\ main_pc = "winnow"
    /\ process_list' = WinnowProcessList(process_list, workers)
    /\ process_list' # process_list
    /\ main_pc' = IF PoolFull(process_list', n_processors)
                  THEN "winnow" ELSE "iterate"
    /\ UNCHANGED <<n_rows, n_processors, chunk_size, results_output_path,
                   taxonomy_validity, has_log, rng_seed, rng_state, iter_r0,
                   workers, output_list, output_lock, result_files, returned>>
    /\ UNCHANGED notH5

\* the chunk iterator raises StopIteration
IteratorExhausted ==
    /\ main_pc = "iterate"
    /\ iter_r0 >= n_rows
    /\ main_pc' = "final_join"
    /\ UNCHANGED <<n_rows, n_processors, chunk_size, results_output_path,
                   taxonomy_validity, has_log, rng_seed, rng_state, iter_r0,
                   process_list, workers, output_list, output_lock,
                   result_files, returned>>
    /\ UNCHANGED notH5

\* while len(process_list) > 0: winnow_process_list
FinalJoin ==
    /\ main_pc = "final_join"
    /\ ~FinalJoinDone(process_list)
    /\ process_list' = WinnowProcessList(process_list, workers)
    /\ process_list' # process_list
    /\ UNCHANGED <<n_rows, n_processors, chunk_size, results_output_path,
                   taxonomy_validity, has_log, rng_seed, rng_state, main_pc,
                   iter_r0, workers, output_list, output_lock, result_files,
                   returned>>
    /\ UNCHANGED notH5

\* output_list = list(output_list); return output_list
ReturnOutput ==
    /\ main_pc = "final_join"
    /\ FinalJoinDone(process_list)
    /\ returned' = output_list
    /\ main_pc' = "returned"
    /\ UNCHANGED <<n_rows, n_processors, chunk_size, results_output_path,
                   taxonomy_validity, has_log, rng_seed, rng_state, iter_r0,
                   process_list, workers, output_list, output_lock,
                   result_files>>
    /\ UNCHANGED notH5

\* worker: run_type_assignment on the chunk and set the cell ids
WorkerAssign(w) ==
    /\ workers[w].pc = "started"
    /\ workers' = [workers EXCEPT
          ![w].assignment = WorkerAssignment(workers[w].r0, workers[w].r1,
                                             workers[w].rng),
          ![w].pc = IF results_output_path THEN "save" ELSE "lock"]
    /\ UNCHANGED <<n_rows, n_processors, chunk_size, results_output_path,
                   taxonomy_validity, has_log, rng_seed, rng_state, main_pc,
                   iter_r0, process_list, output_list, output_lock,
                   result_files, returned>>
    /\ UNCHANGED notH5

\* worker: save_results to {r0}_{r1}_assignment.json
WorkerSaveResults(w) ==
    /\ workers[w].pc = "save"
    /\ LET name == <<workers[w].r0, workers[w].r1>>
       IN  result_files' = {f \in result_files : f.name # name}
                           \cup {[name |-> name, content |-> workers[w].assignment]}
    /\ workers' = [workers EXCEPT ![w].pc = "exited"]
    /\ UNCHANGED <<n_rows, n_processors, chunk_size, results_output_path,
                   taxonomy_validity, has_log, rng_seed, rng_state, main_pc,
                   iter_r0, process_list, output_list, output_lock, returned>>
    /\ UNCHANGED notH5

\* worker: with output_lock (enter)
WorkerAcquireLock(w) ==
    /\ workers[w].pc = "lock"
    /\ output_lock = 0
    /\ output_lock' = w
    /\ workers' = [workers EXCEPT ![w].pc = "append"]
    /\ UNCHANGED <<n_rows, n_processors, chunk_size, results_output_path,
                   taxonomy_validity, has_log, rng_seed, rng_state, main_pc,
                   iter_r0, process_list, output_list, result_files, returned>>
    /\ UNCHANGED notH5

\* worker: output_list += assignment
WorkerAppend(w) ==
    /\ workers[w].pc = "append"
    /\ output_list' = output_list \o workers[w].assignment
    /\ workers' = [workers EXCEPT ![w].pc = "release"]
    /\ UNCHANGED <<n_rows, n_processors, chunk_size, results_output_path,
                   taxonomy_validity, has_log, rng_seed, rng_state, main_pc,
                   iter_r0, process_list, output_lock, result_files, returned>>
    /\ UNCHANGED notH5

\* worker: with output_lock (exit), and the process exits
WorkerReleaseLock(w) ==
    /\ workers[w].pc = "release"
    /\ output_lock' = 0
    /\ workers' = [workers EXCEPT ![w].pc = "exited"]
    /\ UNCHANGED <<n_rows, n_processors, chunk_size, results_output_path,
                   taxonomy_validity, has_log, rng_seed, rng_state, main_pc,
                   iter_r0, process_list, output_list, result_files, returned>>
    /\ UNCHANGED notH5

\* run_type_assignment_on_h5ad_gpu: the positions of its single process
GpuPositions == {"gpu_loop", "gpu_returned"}

\* gpu: for ii, (data, r0, r1) in enumerate(dataloader): assign the chunk
\* in this process with config["rng"], set the cell ids, then save the
\* chunk's file or extend output_list
GpuChunk ==
    /\ main_pc = "gpu_loop"
    /\ iter_r0 < n_rows
    /\ LET r0 == iter_r0
           r1 == Min2(n_rows, iter_r0 + chunk_size)
           chunk_assignment == WorkerAssignment(r0, r1, rng_state)
       IN  /\ iter_r0' = r1
           /\ IF results_output_path
              THEN /\ result_files' =
                         {f \in result_files : f.name # <<r0, r1>>}
                         \cup {[name |-> <<r0, r1>>, content |-> chunk_assignment]}
                   /\ UNCHANGED output_list
              ELSE /\ output_list' = output_list \o chunk_assignment
                   /\ UNCHANGED result_files
    /\ UNCHANGED <<n_rows, n_processors, chunk_size, results_output_path,
                   taxonomy_validity, has_log, rng_seed, rng_state, main_pc,
                   process_list, workers, output_lock, returned>>
    /\ UNCHANGED notH5

\* gpu: output_list = list(output_list); return output_list
GpuReturn ==
    /\ main_pc = "gpu_loop"
    /\ iter_r0 >= n_rows
    /\ returned' = output_list
    /\ main_pc' = "gpu_returned"
    /\ UNCHANGED <<n_rows, n_processors, chunk_size, results_output_path,
                   taxonomy_validity, has_log, rng_seed, rng_state, iter_r0,
                   process_list, workers, output_list, output_lock,
                   result_files>>
    /\ UNCHANGED notH5

NextH5ad ==
    \/ GpuChunk
    \/ GpuReturn
    \/ RaiseInvalidTaxonomy
    \/ Setup
    \/ StartWorker
    \/ WinnowInLoop
    \/ IteratorExhausted
    \/ FinalJoin
    \/ ReturnOutput
    \/ \E w \in DOMAIN workers : WorkerAssign(w)
    \/ \E w \in DOMAIN workers : WorkerSaveResults(w)
    \/ \E w \in DOMAIN workers : WorkerAcquireLock(w)
    \/ \E w \in DOMAIN workers : WorkerAppend(w)
    \/ \E w \in DOMAIN workers : WorkerReleaseLock(w)

SpecH5ad == InitH5ad /\ [][NextH5ad]_vars

-----------------------------------------------------------------------------
(* Properties of run_type_assignment_on_h5ad                               *)

RECURSIVE NthRngState(_, _)
NthRngState(seed, k) ==
    IF k = 0 THEN seed ELSE RngStep(NthRngState(seed, k - 1))

\* the generator of the k-th chunk as a function of the root seed alone
ExpectedRng(seed, k) == SeedLow + NthRngState(seed, k)

\* the index (from 1) of the chunk that holds row r
ChunkOfRow(r) == (r \div chunk_size) + 1

ResultRngExpected(res) ==
    res.rng = ExpectedRng(rng_seed, ChunkOfRow(res.cell_id))

\* C5: the generator of each chunk's worker is drawn from the root
\* generator by the parent process, in ascending chunk order, when the
\* worker is created: the k-th worker holds chunk k and the k-th draw of the
\* root generator, the root generator has been advanced exactly once per
\* worker created, and every result emitted for a row carries the generator
\* fixed by the root seed and the row's chunk, whatever order the workers
\* run and finish in.
C5_WorkerRngFixedByChunkOrder ==
    (main_pc \notin GpuPositions) =>
        /\ rng_state = NthRngState(rng_seed, Len(workers))
        /\ \A w \in DOMAIN workers :
              /\ workers[w].r0 = (w - 1) * chunk_size
              /\ workers[w].rng = ExpectedRng(rng_seed, w)
              /\ \A i \in DOMAIN workers[w].assignment :
                    ResultRngExpected(workers[w].assignment[i])
        /\ \A i \in DOMAIN output_list : ResultRngExpected(output_list[i])
        /\ \A f \in result_files :
              \A i \in DOMAIN f.content : ResultRngExpected(f.content[i])

\* two workers ran concurrently and the later chunk's results landed first
C5_Witness ==
    /\ main_pc = "returned"
    /\ Len(workers) >= 2
    /\ returned # <<>>
    /\ returned[1].cell_id # 0

RowsOf(list) == {list[i].cell_id : i \in DOMAIN list}

\* chunks started so far: the row ranges of a partition of [0, iter_r0)
ChunkNames ==
    {<<k * chunk_size, Min2(n_rows, (k + 1) * chunk_size)>> :
        k \in {j \in 0..n_rows : j * chunk_size < n_rows}}

\* C6: each query row's result is emitted exactly once.  Without
\* results_output_path a worker appends to the shared list only while it
\* holds output_lock, no file is written, and the returned list has exactly
\* one dict per query row.  With results_output_path the list and the lock
\* are never touched, the returned list is empty, and each chunk [r0, r1) is
\* written to the file named by (r0, r1) holding rows r0..r1-1 in order.
C6_EachRowEmittedOnce ==
    /\ \A w \in DOMAIN workers :
          workers[w].pc \in {"append", "release"} => output_lock = w
    /\ results_output_path => (output_list = <<>> /\ output_lock = 0)
    /\ ~results_output_path => result_files = {}
    /\ \A i, j \in DOMAIN output_list :
          output_list[i].cell_id = output_list[j].cell_id => i = j
    /\ (main_pc \in {"returned", "gpu_returned"}) =>
          IF results_output_path
          THEN /\ returned = <<>>
               /\ {f.name : f \in result_files} = ChunkNames
               /\ \A f \in result_files :
                     /\ Len(f.content) = f.name[2] - f.name[1]
                     /\ \A i \in DOMAIN f.content :
                           f.content[i].cell_id = f.name[1] + i - 1
               /\ \A f, g \in result_files : f.name = g.name => f = g
          ELSE /\ Len(returned) = n_rows
               /\ RowsOf(returned) = 0..(n_rows - 1)

\* a run without results_output_path returned the rows of several chunks
C6_Witness ==
    /\ main_pc = "returned"
    /\ ~results_output_path
    /\ Len(workers) >= 2
    /\ Len(returned) = n_rows

\* C7: when the taxonomy tree and the marker cache are inconsistent,
\* run_type_assignment_on_h5ad_cpu fails, with or without a log object,
\* before it reads a chunk, draws from the generator, starts a worker or
\* writes a file.
C7_InvalidTaxonomyFailsFirst ==
    (~taxonomy_validity /\ main_pc \notin GpuPositions) =>
        /\ main_pc \in {"start", "failed"}
        /\ iter_r0 = 0
        /\ rng_state = rng_seed
        /\ workers = <<>>
        /\ process_list = <<>>
        /\ output_list = <<>>
        /\ result_files = {}
        /\ returned = <<>>

\* the call failed on an inconsistent taxonomy although a log was given
C7_Witness ==
    /\ main_pc = "failed"
    /\ ~taxonomy_validity
    /\ has_log
    /\ n_rows > 0

-----------------------------------------------------------------------------
(* CSRRowIterator over a CSR matrix stored as data / indices / indptr      *)

MaxRows == 3
MaxRowChunk == 3
MaxStops == 2

ColumnChoices == {1, 2}
MatrixValues == {0, 2}

RECURSIVE Flatten(_)
Flatten(ss) == IF ss = <<>> THEN <<>> ELSE Head(ss) \o Flatten(Tail(ss))

\* the columns (from 0) of the non-zero entries of a dense row, ascending
NonzeroColumns(row) ==
    [k \in DOMAIN SelectSeq([j \in DOMAIN row |-> j], LAMBDA j : row[j] # 0) |->
        SelectSeq([j \in DOMAIN row |-> j], LAMBDA j : row[j] # 0)[k] - 1]

RECURSIVE IndPtr(_)
IndPtr(rows) ==
    IF rows = <<>> THEN <<0>>
    ELSE LET before == IndPtr(SubSeq(rows, 1, Len(rows) - 1))
         IN  Append(before,
                    before[Len(before)] + Len(NonzeroColumns(rows[Len(rows)])))

\* scipy_sparse.csr_matrix(data): the three arrays written to the file
csr_matrix(rows) ==
    [data |-> Flatten([i \in DOMAIN rows |->
                          [k \in DOMAIN NonzeroColumns(rows[i]) |->
                              rows[i][NonzeroColumns(rows[i])[k] + 1]]]),
     indices |-> Flatten([i \in DOMAIN rows |-> NonzeroColumns(rows[i])]),
     indptr |-> IndPtr(rows)]

\* load_csr: the dense rows row_spec[0]..row_spec[1]-1, scattered from the
\* CSR arrays (indptr[r], indices[k] and rows count from 0)
load_csr(row_spec, n_cols, data, indices, indptr) ==
    [i \in 1..(row_spec[2] - row_spec[1]) |->
        [j \in 1..n_cols |->
            LET r == row_spec[1] + i - 1
                at == {k \in (indptr[r + 1] + 1)..indptr[r + 2] :
                          indices[k] = j - 1}
            IN  IF at = {} THEN 0 ELSE data[CHOOSE k \in at : TRUE]]]

\* if self.r0 >= self.n_rows: raise StopIteration
ExhaustedLate(r, n) == r > n
Exhausted(r, n) == r >= n

InitIter ==
    /\ self_n_rows \in 0..MaxRows
    /\ self_n_cols \in ColumnChoices
    /\ self_row_chunk_size \in 1..MaxRowChunk
    /\ dense_data \in [1..self_n_rows -> [1..self_n_cols -> MatrixValues]]
    /\ csr_file = csr_matrix(dense_data)
    /\ self_r0 = 0
    /\ self_h5_handle = "open"
    /\ yielded = <<>>
    /\ n_stop_iteration = 0
    /\ IdleAssign
    /\ IdleH5ad
    /\ IdlePrecompute
    /\ IdleSelect
    /\ IdleSelectAll
    /\ IdleCache
    /\ IdleTranspose
    /\ IdleBinaryArray
    /\ IdleRunMapping
    /\ IdleTally
    /\ IdleAssemble
    /\ IdleStats
    /\ IdleAnnData
    /\ IdleOutputMap
    /\ IdleTaxonomy

\* __next__ returning (chunk, old_r0, r1)
NextChunk ==
    /\ ~Exhausted(self_r0, self_n_rows)
    /\ LET r1 == Min2(self_n_rows, self_r0 + self_row_chunk_size)
           chunk == load_csr(<<self_r0, r1>>, self_n_cols, csr_file.data,
                             csr_file.indices, csr_file.indptr)
       IN  /\ yielded' = Append(yielded, [chunk |-> chunk, r0 |-> self_r0,
                                           r1 |-> r1])
           /\ self_r0' = r1
    /\ UNCHANGED <<self_n_rows, self_n_cols, self_row_chunk_size,
                   self_h5_handle, csr_file, dense_data, n_stop_iteration>>
    /\ UNCHANGED notIt

\* __next__ closing the file and raising StopIteration
RaiseStopIteration ==
    /\ Exhausted(self_r0, self_n_rows)
    /\ n_stop_iteration < MaxStops
    /\ self_h5_handle' = "None"
    /\ n_stop_iteration' = n_stop_iteration + 1
    /\ UNCHANGED <<self_n_rows, self_n_cols, self_row_chunk_size, self_r0,
                   csr_file, dense_data, yielded>>
    /\ UNCHANGED notIt

NextIter ==
    \/ NextChunk
    \/ RaiseStopIteration

SpecIter == InitIter /\ [][NextIter]_vars

\* C8: for n_rows >= 0 and row_chunk_size >= 1 the triples returned by
\* __next__ partition [0, n_rows) in ascending order: the first r0 is 0,
\* each next r0 is the previous r1, every chunk has between 1 and
\* row_chunk_size rows and equals the dense rows r0..r1-1 of the matrix, the
\* iterator stands at the last r1, and once StopIteration has been raised
\* the last r1 is n_rows (no triple at all when n_rows = 0), the file is
\* closed, and the iterator is still exhausted, so every further call raises
\* StopIteration again.
C8_ChunksPartitionRows ==
    /\ \A k \in DOMAIN yielded :
          /\ yielded[k].r0 = (IF k = 1 THEN 0 ELSE yielded[k - 1].r1)
          /\ yielded[k].r1 - yielded[k].r0 >= 1
          /\ yielded[k].r1 - yielded[k].r0 <= self_row_chunk_size
          /\ yielded[k].r1 <= self_n_rows
          /\ yielded[k].chunk = SubSeq(dense_data, yielded[k].r0 + 1, yielded[k].r1)
    /\ self_r0 = (IF yielded = <<>> THEN 0 ELSE yielded[Len(yielded)].r1)
    /\ (n_stop_iteration > 0) =>
          /\ self_r0 = self_n_rows
          /\ Exhausted(self_r0, self_n_rows)
          /\ self_h5_handle = "None"
          /\ Len(yielded) = CeilDiv(self_n_rows, self_row_chunk_size)

\* several chunks, the last one short and not all zero, then StopIteration
\* raised more than once
C8_Witness ==
    /\ n_stop_iteration >= 2
    /\ Len(yielded) >= 2
    /\ yielded[Len(yielded)].r1 - yielded[Len(yielded)].r0 < self_row_chunk_size
    /\ \E j \in 1..self_n_cols : yielded[Len(yielded)].chunk[1][j] # 0

-----------------------------------------------------------------------------
(* precompute_summary_stats_from_h5ad_and_tree: per-cluster summary        *)
(* statistics accumulated over row chunks of the cell by gene matrix      *)

MaxCells == 4
FloatPrecision == 2

GeneNames == <<"g1">>
ClusterNames == <<"c0", "c1">>
\* entries of a matrix that is already log2CPM, and raw counts
ExpressionValues == {0, 1, 4}
RawCounts == {0, 3}

RECURSIVE Pow2(_)
Pow2(n) == IF n = 0 THEN 1 ELSE 2 * Pow2(n - 1)

RECURSIVE Log2Floor(_)
Log2Floor(n) == IF n < 2 THEN 0 ELSE 1 + Log2Floor(n \div 2)

\* dtype=float: a non-negative number rounded to the nearest number with a
\* FloatPrecision-bit significand, ties to the even significand
Fl(x) ==
    IF x < Pow2(FloatPrecision) THEN x
    ELSE LET q == Pow2(Log2Floor(x) - (FloatPrecision - 1))
             lo == (x \div q) * q
         IN  IF 2 * (x - lo) < q THEN lo
             ELSE IF 2 * (x - lo) > q THEN lo + q
             ELSE IF (x \div q) % 2 = 0 THEN lo ELSE lo + q

\* 1.0e6 in convert_to_cpm
CpmScale == 1000000

\* convert_to_cpm on one row: 1.0e6 * data / row_sum (1 when row_sum is 0)
convert_to_cpm(row) ==
    LET row_sum == SumSeq(row)
        denom == IF row_sum > 0 THEN row_sum ELSE 1
    IN  [j \in DOMAIN row |-> Fl((CpmScale * row[j]) \div denom)]

\* CellByGeneMatrix.to_log2CPM_in_place on one row: log2(1 + cpm)
to_log2CPM(row) ==
    [j \in DOMAIN row |-> Fl(Log2Floor(1 + convert_to_cpm(row)[j]))]

\* if this_cluster.normalization != 'log2CPM': to_log2CPM_in_place()
NormalizedRows(rows, norm) ==
    IF norm # "log2CPM" THEN [i \in DOMAIN rows |-> to_log2CPM(rows[i])]
    ELSE rows

\* buffer_dict[k] = np.zeros(...) for one cluster
ZeroStats ==
    [n_cells |-> 0,
     sum |-> [g \in DOMAIN GeneNames |-> 0],
     sumsq |-> [g \in DOMAIN GeneNames |-> 0],
     gt0 |-> [g \in DOMAIN GeneNames |-> 0],
     gt1 |-> [g \in DOMAIN GeneNames |-> 0]]

\* buffer_dict[k][unq_cluster] += summary_chunk[k]
AccumulateOverwrite(buffer, summary_chunk) == summary_chunk
Accumulate(buffer, summary_chunk) ==
    [n_cells |-> buffer.n_cells + summary_chunk.n_cells,
     sum |-> [g \in DOMAIN GeneNames |-> Fl(buffer.sum[g] + summary_chunk.sum[g])],
     sumsq |-> [g \in DOMAIN GeneNames |->
                   Fl(buffer.sumsq[g] + summary_chunk.sumsq[g])],
     gt0 |-> [g \in DOMAIN GeneNames |-> buffer.gt0[g] + summary_chunk.gt0[g]],
     gt1 |-> [g \in DOMAIN GeneNames |-> buffer.gt1[g] + summary_chunk.gt1[g]]]

\* a floating-point sum taken down the rows
RECURSIVE FloatSum(_)
FloatSum(xs) ==
    IF xs = <<>> THEN 0
    ELSE Fl(FloatSum(SubSeq(xs, 1, Len(xs) - 1)) + xs[Len(xs)])

\* summary_stats_for_chunk: the statistics of the rows of one chunk
summary_stats_for_chunk(rows) ==
    [n_cells |-> Len(rows),
     sum |-> [g \in DOMAIN GeneNames |->
                 FloatSum([i \in DOMAIN rows |-> rows[i][g]])],
     sumsq |-> [g \in DOMAIN GeneNames |->
                   FloatSum([i \in DOMAIN rows |-> Fl(rows[i][g] * rows[i][g])])],
     gt0 |-> [g \in DOMAIN GeneNames |->
                 Cardinality({i \in DOMAIN rows : rows[i][g] > 0})],
     gt1 |-> [g \in DOMAIN GeneNames |->
                 Cardinality({i \in DOMAIN rows : rows[i][g] > 1})]]

\* cluster_list = list(cluster_to_input_row): the clusters in output order
cluster_list(c2r) == SelectSeq(ClusterNames, LAMBDA c : c \in DOMAIN c2r)

\* anndata_row_to_output_row: zeros, then the output cluster of each row a
\* cluster lists (rows count from 0)
anndata_row_to_output_row(c2r, r) ==
    IF \E c \in DOMAIN c2r : r \in c2r[c]
    THEN CHOOSE c \in DOMAIN c2r : r \in c2r[c]
    ELSE cluster_list(c2r)[1]

\* chunk[0][valid, :]: the rows r0..r1-1 of the matrix that belong to a
\* cluster, in row order
RowsOfCluster(data, c2r, c, r0, r1) ==
    LET valid == SelectSeq([i \in 1..(r1 - r0) |-> r0 + i - 1],
                           LAMBDA r : anndata_row_to_output_row(c2r, r) = c)
    IN  [i \in DOMAIN valid |-> data[valid[i] + 1]]

InitPrecompute ==
    /\ normalization \in {"raw", "log2CPM"}
    /\ \E n \in 0..MaxCells :
          /\ a_data \in [1..n -> [DOMAIN GeneNames ->
                                     IF normalization = "raw"
                                     THEN RawCounts ELSE ExpressionValues]]
          /\ \E f \in [0..(n - 1) -> Range(ClusterNames)] :
                cluster_to_input_row =
                    [c \in {f[r] : r \in 0..(n - 1)} |->
                        {r \in 0..(n - 1) : f[r] = c}]
    /\ rows_at_a_time \in 1..MaxCells
    /\ processed_cells = 0
    /\ buffer_dict = [c \in DOMAIN cluster_to_input_row |-> ZeroStats]
    /\ pre_pc = "chunking"
    /\ out_file = <<>>
    /\ IdleAssign
    /\ IdleH5ad
    /\ IdleIter
    /\ IdleSelect
    /\ IdleSelectAll
    /\ IdleCache
    /\ IdleTranspose
    /\ IdleBinaryArray
    /\ IdleRunMapping
    /\ IdleTally
    /\ IdleAssemble
    /\ IdleStats
    /\ IdleAnnData
    /\ IdleOutputMap
    /\ IdleTaxonomy

\* for chunk in chunk_iterator: add the chunk's statistics of every cluster
\* present in the chunk to the buffers
AccumulateChunk ==
    /\ pre_pc = "chunking"
    /\ processed_cells < Len(a_data)
    /\ LET r0 == processed_cells
           r1 == Min2(Len(a_data), processed_cells + rows_at_a_time)
           present == {anndata_row_to_output_row(cluster_to_input_row, r) :
                          r \in r0..(r1 - 1)}
       IN  /\ buffer_dict' =
                 [c \in DOMAIN buffer_dict |->
                    IF c \in present
                    THEN Accumulate(
                            buffer_dict[c],
                            summary_stats_for_chunk(
                               NormalizedRows(
                                  RowsOfCluster(a_data, cluster_to_input_row,
                                                c, r0, r1),
                                  normalization)))
                    ELSE buffer_dict[c]]
           /\ processed_cells' = r1
    /\ UNCHANGED <<a_data, cluster_to_input_row, rows_at_a_time,
                   normalization, pre_pc, out_file>>
    /\ UNCHANGED notPre

\* _create_empty_stats_file and out_file[k][:] = buffer_dict[k]
WriteStats ==
    /\ pre_pc = "chunking"
    /\ processed_cells >= Len(a_data)
    /\ out_file' = buffer_dict
    /\ pre_pc' = "written"
    /\ UNCHANGED <<a_data, cluster_to_input_row, rows_at_a_time,
                   normalization, processed_cells, buffer_dict>>
    /\ UNCHANGED notPre

NextPrecompute ==
    \/ AccumulateChunk
    \/ WriteStats

SpecPrecompute == InitPrecompute /\ [][NextPrecompute]_vars

-----------------------------------------------------------------------------
(* Properties of the summary statistics                                    *)

\* the rows of a cluster in the whole matrix, normalized
ClusterRows(c) ==
    NormalizedRows(RowsOfCluster(a_data, cluster_to_input_row, c, 0, Len(a_data)),
                   normalization)

\* the statistics of a cluster's rows when they arrive in one chunk
OnePassStats(rows) == Accumulate(ZeroStats, summary_stats_for_chunk(rows))

\* the first k rows and the remaining rows of a cluster processed
\* separately, each in one chunk, and the two results added
TwoPartStats(rows, k) ==
    Accumulate(OnePassStats(SubSeq(rows, 1, k)),
               OnePassStats(SubSeq(rows, k + 1, Len(rows))))

CountsEqual(a, b) ==
    a.n_cells = b.n_cells /\ a.gt0 = b.gt0 /\ a.gt1 = b.gt1

\* every partial sum of the rows' values and of their squares is below
\* 2^FloatPrecision, so that no addition in any grouping is rounded
NoSumRounds(rows) ==
    \A g \in DOMAIN GeneNames :
        /\ SumSeq([i \in DOMAIN rows |-> rows[i][g]]) < Pow2(FloatPrecision)
        /\ SumSeq([i \in DOMAIN rows |-> rows[i][g] * rows[i][g]])
              < Pow2(FloatPrecision)

\* C9 as stated: all five statistics written for a cluster equal the
\* one-pass result for every rows_at_a_time, and every two-part split that
\* is added up equals the one-pass result.
C9_StatsIndependentOfChunking ==
    (pre_pc = "written") =>
        \A c \in DOMAIN out_file :
            LET rows == ClusterRows(c)
                one_pass == OnePassStats(rows)
            IN  /\ out_file[c] = one_pass
                /\ \A k \in 0..Len(rows) : TwoPartStats(rows, k) = one_pass

\* C9 amended: the counts n_cells, gt0 and gt1 written for a cluster equal
\* the one-pass counts for every rows_at_a_time and for every two-part
\* split; the floating-point sums sum and sumsq equal the one-pass sums
\* whenever no partial sum is rounded.
C9_CountsIndependentOfChunking ==
    (pre_pc = "written") =>
        \A c \in DOMAIN out_file :
            \A rows \in {ClusterRows(c)} :
            \A one_pass \in {OnePassStats(rows)} :
            \A exact \in {NoSumRounds(rows)} :
                /\ CountsEqual(out_file[c], one_pass)
                /\ exact => out_file[c] = one_pass
                /\ \A k \in 0..Len(rows) :
                      \A two_part \in {TwoPartStats(rows, k)} :
                          /\ CountsEqual(two_part, one_pass)
                          /\ exact => two_part = one_pass

\* a cluster of three cells with expression above 0 was read in more than
\* one chunk and its sums were not rounded
C9_Witness ==
    /\ pre_pc = "written"
    /\ rows_at_a_time < Len(a_data)
    /\ \E c \in DOMAIN out_file :
          /\ out_file[c].n_cells >= 3
          /\ out_file[c].gt0[1] >= 3
          /\ NoSumRounds(ClusterRows(c))
          /\ \E r \in cluster_to_input_row[c] :
                r >= rows_at_a_time

-----------------------------------------------------------------------------
(* Marker selector: greedy choice of marker genes for one parent node      *)

MaxPerUtility == 2

\* gene identifiers: the genes of the reference marker file, and a gene
\* that only the query file names
ReferenceGenes == {1, 2, 3}
QueryOnlyGenes == {0}
\* the columns of the marker arrays: pairs of leaves
PairIds == {1, 2}
Signs == {"up", "down"}

\* the (pair, sign) entries a gene is a valid marker for
Utility(markers, g, pairs) ==
    {<<pr, sg>> \in pairs \X Signs : markers[g][pr] = sg}

\* step 1: the candidate genes are the reference genes the query names
CandidateGenesAll(query_names) == ReferenceGenes
CandidateGenes(query_names) == ReferenceGenes \cap query_names

\* the entries still below n_per_utility that a gene would advance
MarginalGain(markers, g, pairs, cov, n_per) ==
    Cardinality({e \in Utility(markers, g, pairs) : cov[e] < n_per})

\* the gene the greedy step takes among those not yet chosen: highest
\* marginal gain, then highest total utility, then lowest gene id
BestGene(markers, genes, pairs, cov, n_per) ==
    CHOOSE g \in genes :
        \A h \in genes \ {g} :
            LET gain_g == MarginalGain(markers, g, pairs, cov, n_per)
                gain_h == MarginalGain(markers, h, pairs, cov, n_per)
                util_g == Cardinality(Utility(markers, g, pairs))
                util_h == Cardinality(Utility(markers, h, pairs))
            IN  \/ gain_g > gain_h
                \/ gain_g = gain_h /\ util_g > util_h
                \/ gain_g = gain_h /\ util_g = util_h /\ g < h

\* the candidate genes not yet chosen that have positive marginal gain
UsefulGenesGainTwo ==
    {g \in CandidateGenes(query_gene_names) \ Range(marker_genes) :
        MarginalGain(marker_gene_array, g, leaf_pairs, covered,
                     n_per_utility) > 1}
UsefulGenes ==
    {g \in CandidateGenes(query_gene_names) \ Range(marker_genes) :
        MarginalGain(marker_gene_array, g, leaf_pairs, covered,
                     n_per_utility) > 0}

InitSelect ==
    /\ marker_gene_array \in
          [ReferenceGenes -> [PairIds -> Signs \cup {"none"}]]
    /\ query_gene_names \in SUBSET (ReferenceGenes \cup QueryOnlyGenes)
    /\ leaf_pairs \in SUBSET PairIds
    /\ n_per_utility \in 1..MaxPerUtility
    /\ covered = [e \in leaf_pairs \X Signs |-> 0]
    /\ marker_genes = <<>>
    /\ sel_pc = "start"
    /\ output_dict = <<>>
    /\ raised = "none"
    /\ IdleAssign
    /\ IdleH5ad
    /\ IdleIter
    /\ IdlePrecompute
    /\ IdleSelectAll
    /\ IdleCache
    /\ IdleTranspose
    /\ IdleBinaryArray
    /\ IdleRunMapping
    /\ IdleTally
    /\ IdleAssemble
    /\ IdleStats
    /\ IdleAnnData
    /\ IdleOutputMap
    /\ IdleTaxonomy

\* whether no query gene is among the genes of the reference marker file
NoGeneOverlapNever(query_names) == FALSE
NoGeneOverlap(query_names) == CandidateGenes(query_names) = {}

\* with pytest.raises(RuntimeError, match='No gene overlap')
NoGeneOverlapMessage == "No gene overlap"

\* no query gene is among the reference genes: RuntimeError
RaiseNoGeneOverlap ==
    /\ sel_pc = "start"
    /\ NoGeneOverlap(query_gene_names)
    /\ sel_pc' = "error"
    /\ raised' = NoGeneOverlapMessage
    /\ UNCHANGED <<marker_gene_array, query_gene_names, leaf_pairs,
                   n_per_utility, covered, marker_genes, output_dict>>
    /\ UNCHANGED notSel

\* the vocabularies overlap: start the greedy loop
StartSelection ==
    /\ sel_pc = "start"
    /\ ~NoGeneOverlap(query_gene_names)
    /\ sel_pc' = "select"
    /\ UNCHANGED <<marker_gene_array, query_gene_names, leaf_pairs,
                   n_per_utility, covered, marker_genes, output_dict,
                   raised>>
    /\ UNCHANGED notSel

\* one greedy step: add the best gene and count the entries it covers
SelectGene ==
    /\ sel_pc = "select"
    /\ UsefulGenes # {}
    /\ LET g == BestGene(marker_gene_array, UsefulGenes, leaf_pairs, covered,
                         n_per_utility)
       IN  /\ marker_genes' = Append(marker_genes, g)
           /\ covered' =
                 [e \in DOMAIN covered |->
                    IF e \in Utility(marker_gene_array, g, leaf_pairs)
                    THEN covered[e] + 1 ELSE covered[e]]
    /\ UNCHANGED <<marker_gene_array, query_gene_names, leaf_pairs,
                   n_per_utility, sel_pc, output_dict, raised>>
    /\ UNCHANGED notSel

\* no gene has positive marginal gain: select_marker_genes_v2 returns
FinishSelection ==
    /\ sel_pc = "select"
    /\ UsefulGenes = {}
    /\ sel_pc' = "done"
    /\ UNCHANGED <<marker_gene_array, query_gene_names, leaf_pairs,
                   n_per_utility, covered, marker_genes, output_dict,
                   raised>>
    /\ UNCHANGED notSel

\* the key of the parent node a worker is run for
worker_parent == "class/bb"

\* output_dict[parent_node] = marker_genes
StoreEntryNonEmpty(d, p, genes) ==
    IF genes = <<>> THEN d ELSE [k \in DOMAIN d \cup {p} |->
                                    IF k = p THEN genes ELSE d[k]]
StoreEntry(d, p, genes) ==
    [k \in DOMAIN d \cup {p} |-> IF k = p THEN genes ELSE d[k]]

\* _marker_selection_worker: select the markers of parent_node and store
\* them under its key
StoreMarkers ==
    /\ sel_pc = "done"
    /\ output_dict' = StoreEntry(output_dict, worker_parent, marker_genes)
    /\ sel_pc' = "stored"
    /\ UNCHANGED <<marker_gene_array, query_gene_names, leaf_pairs,
                   n_per_utility, covered, marker_genes, raised>>
    /\ UNCHANGED notSel

NextSelect ==
    \/ RaiseNoGeneOverlap
    \/ StartSelection
    \/ SelectGene
    \/ FinishSelection
    \/ StoreMarkers

SpecSelect == InitSelect /\ [][NextSelect]_vars

\* the selection is a sequential loop in one call: it is never suspended
\* while a step is possible
InitSelectFair ==
    /\ InitSelect
    /\ query_gene_names \cap QueryOnlyGenes = {}

SpecSelectFair ==
    InitSelectFair /\ [][NextSelect]_vars /\ WF_vars(NextSelect)

\* C10: every gene chosen for a parent node, and every gene the worker
\* stores for it, is named by the query vocabulary and is a valid marker
\* for at least one (pair, sign) among the leaf pairs of the parent.
C10_SelectedGenesAreQueryMarkers ==
    \A g \in Range(marker_genes)
               \cup UNION {Range(output_dict[k]) : k \in DOMAIN output_dict} :
        /\ g \in query_gene_names
        /\ Utility(marker_gene_array, g, leaf_pairs) # {}

\* two genes were stored although the reference has a better marker that
\* the query does not name, and the query names a gene the reference lacks
C10_Witness ==
    /\ sel_pc = "stored"
    /\ worker_parent \in DOMAIN output_dict
    /\ Len(output_dict[worker_parent]) >= 2
    /\ query_gene_names \cap QueryOnlyGenes # {}
    /\ \E g \in ReferenceGenes \ query_gene_names :
          Cardinality(Utility(marker_gene_array, g, leaf_pairs)) >= 2

\* the query-vocabulary genes that are markers for a (pair, sign) entry
AvailableGenes(e) ==
    {g \in CandidateGenes(query_gene_names) :
        e \in Utility(marker_gene_array, g, leaf_pairs)}

\* the selected genes that are markers for a (pair, sign) entry
SelectedFor(e) ==
    {g \in Range(marker_genes) :
        e \in Utility(marker_gene_array, g, leaf_pairs)}

SelectionReturned == sel_pc \in {"done", "stored"}
SelectionOver == sel_pc \in {"stored", "error"}

\* C11: the greedy selection for a parent terminates, and when it has
\* returned every (pair, sign) entry of the parent is covered by at least
\* min(n_per_utility, n_available) selected genes, n_available being the
\* number of query-vocabulary genes that are markers for the entry; when
\* no gene is a marker for any pair the returned list is empty.
C11_GreedyTerminatesWithCoverage ==
    /\ <>SelectionOver
    /\ [](SelectionReturned =>
            /\ \A e \in leaf_pairs \X Signs :
                  /\ covered[e] = Cardinality(SelectedFor(e))
                  /\ Cardinality(SelectedFor(e)) >=
                        Min2(n_per_utility, Cardinality(AvailableGenes(e)))
            /\ (\A g \in ReferenceGenes :
                   Utility(marker_gene_array, g, PairIds) = {})
                  => marker_genes = <<>>)

\* a returned selection in which one entry has fewer markers available
\* than n_per_utility and another has more
C11_Witness ==
    /\ sel_pc = "stored"
    /\ \E e \in leaf_pairs \X Signs :
          /\ Cardinality(AvailableGenes(e)) >= 1
          /\ Cardinality(AvailableGenes(e)) < n_per_utility
    /\ \E e \in leaf_pairs \X Signs :
          Cardinality(AvailableGenes(e)) > n_per_utility

\* C12: a parent whose set of leaf pairs is empty does not make the
\* selection fail: with overlapping vocabularies the selection returns the
\* empty list for it, and the worker stores that empty list under the
\* parent's key.
C12_EmptyPairsGiveEmptyEntry ==
    (leaf_pairs = {} /\ CandidateGenes(query_gene_names) # {}) =>
        /\ sel_pc # "error"
        /\ marker_genes = <<>>
        /\ sel_pc = "stored" =>
              /\ worker_parent \in DOMAIN output_dict
              /\ output_dict[worker_parent] = <<>>

\* the worker has stored the entry of a parent without leaf pairs although
\* the reference has markers for pairs of other parents
C12_Witness ==
    /\ sel_pc = "stored"
    /\ leaf_pairs = {}
    /\ worker_parent \in DOMAIN output_dict
    /\ \E g \in CandidateGenes(query_gene_names) :
          Utility(marker_gene_array, g, PairIds) # {}

\* C13: when no query gene is among the genes of the reference marker
\* file, the selection fails with the error 'No gene overlap' and never
\* returns a marker list, not even an empty one; the error is raised in no
\* other case.
C13_NoOverlapRaises ==
    /\ CandidateGenes(query_gene_names) = {} =>
          /\ sel_pc \in {"start", "error"}
          /\ DOMAIN output_dict = {}
    /\ sel_pc = "error" =>
          /\ raised = NoGeneOverlapMessage
          /\ CandidateGenes(query_gene_names) = {}
    /\ raised # "none" => sel_pc = "error"

\* the error was raised for a query that names only genes the reference
\* lacks, although the reference has markers for the parent's pairs
C13_Witness ==
    /\ sel_pc = "error"
    /\ raised = NoGeneOverlapMessage
    /\ query_gene_names # {}
    /\ leaf_pairs # {}
    /\ \E g \in ReferenceGenes :
          Utility(marker_gene_array, g, leaf_pairs) # {}

-----------------------------------------------------------------------------
(* select_all_markers: marker selection for every parent of the tree,     *)
(* spread over worker processes                                           *)

MaxSelectorProcessors == 2

\* the parents of the tree, the root (None) included, and their leaf pairs
all_parents == <<"class/aa", "class/bb", "None">>
ParentPairs ==
    [p \in Range(all_parents) |->
        CASE p = "None" -> PairIds
          [] p = "class/aa" -> {1}
          [] OTHER -> {}]

\* cutoffs below every parent, between the parents, and above every parent
CutoffChoices == {-1, 1, 1000000}

\* the coverage counts after a list of genes was chosen
CoverageOf(markers, chosen, pairs) ==
    [e \in pairs \X Signs |->
        Cardinality({g \in Range(chosen) : e \in Utility(markers, g, pairs)})]

\* the greedy selection for one parent as a function of its inputs
RECURSIVE GreedyFrom(_, _, _, _, _)
GreedyFrom(markers, genes, pairs, n_per, chosen) ==
    LET cov == CoverageOf(markers, chosen, pairs)
        useful == {g \in genes \ Range(chosen) :
                      MarginalGain(markers, g, pairs, cov, n_per) > 0}
    IN  IF useful = {} THEN chosen
        ELSE GreedyFrom(markers, genes, pairs, n_per,
                        Append(chosen,
                               BestGene(markers, useful, pairs, cov, n_per)))

select_marker_genes_v2(markers, query_names, pairs, n_per) ==
    GreedyFrom(markers, CandidateGenes(query_names), pairs, n_per, <<>>)

\* a parent with more leaf pairs than the cutoff is a behemoth
IsBehemoth(p, cutoff) == Cardinality(ParentPairs[p]) > cutoff

behemoth_parents(cutoff) ==
    SelectSeq(all_parents, LAMBDA p : IsBehemoth(p, cutoff))
smaller_parents(cutoff) ==
    SelectSeq(all_parents, LAMBDA p : ~IsBehemoth(p, cutoff))

\* the k-th of n lists the smaller parents are dealt into
RECURSIVE Dealt(_, _, _, _)
Dealt(parents, k, n, i) ==
    IF i > Len(parents) THEN <<>>
    ELSE (IF (i - 1) % n = k - 1 THEN <<parents[i]>> ELSE <<>>)
         \o Dealt(parents, k, n, i + 1)

\* the jobs: every behemoth alone, the smaller parents packed into at most
\* n lists
PackedJobsFirstListOnly(cutoff, n) ==
    [i \in 1..Len(behemoth_parents(cutoff)) |->
        <<behemoth_parents(cutoff)[i]>>]
    \o SelectSeq([k \in 1..1 |-> Dealt(smaller_parents(cutoff), k, n, 1)],
                 LAMBDA job : job # <<>>)
PackedJobs(cutoff, n) ==
    [i \in 1..Len(behemoth_parents(cutoff)) |->
        <<behemoth_parents(cutoff)[i]>>]
    \o SelectSeq([k \in 1..n |-> Dealt(smaller_parents(cutoff), k, n, 1)],
                 LAMBDA job : job # <<>>)

NoJob == [busy |-> FALSE, todo |-> <<>>]

InitSelectAll ==
    /\ marker_gene_array \in [ReferenceGenes -> [PairIds -> {"up", "none"}]]
    /\ query_gene_names \in (SUBSET ReferenceGenes) \ {{}}
    /\ n_per_utility \in 1..MaxPerUtility
    /\ leaf_pairs = {}
    /\ covered = <<>>
    /\ marker_genes = <<>>
    /\ sel_pc = "idle"
    /\ output_dict = <<>>
    /\ raised = "none"
    /\ behemoth_cutoff \in CutoffChoices
    /\ selector_processors \in 1..MaxSelectorProcessors
    /\ job_queue = <<>>
    /\ process_dict = [w \in 1..selector_processors |-> NoJob]
    /\ mgr_output_dict = <<>>
    /\ n_stored = [p \in Range(all_parents) |-> 0]
    /\ all_pc = "start"
    /\ output_json = <<>>
    /\ IdleAssign
    /\ IdleH5ad
    /\ IdleIter
    /\ IdlePrecompute
    /\ IdleCache
    /\ IdleTranspose
    /\ IdleBinaryArray
    /\ IdleRunMapping
    /\ IdleTally
    /\ IdleAssemble
    /\ IdleStats
    /\ IdleAnnData
    /\ IdleOutputMap
    /\ IdleTaxonomy

\* sort the parents into behemoths and smaller parents and queue the jobs
PartitionParents ==
    /\ all_pc = "start"
    /\ job_queue' = PackedJobs(behemoth_cutoff, selector_processors)
    /\ all_pc' = "running"
    /\ UNCHANGED <<behemoth_cutoff, selector_processors, process_dict,
                   mgr_output_dict, n_stored, output_json>>
    /\ UNCHANGED notAll

\* a free worker slot takes the next job of the queue
StartSelector(w) ==
    /\ all_pc = "running"
    /\ job_queue # <<>>
    /\ ~process_dict[w].busy
    /\ process_dict' =
          [process_dict EXCEPT ![w] = [busy |-> TRUE, todo |-> Head(job_queue)]]
    /\ job_queue' = Tail(job_queue)
    /\ UNCHANGED <<behemoth_cutoff, selector_processors, mgr_output_dict,
                   n_stored, all_pc, output_json>>
    /\ UNCHANGED notAll

\* _marker_selection_worker for the next parent of the worker's job
SelectorStore(w) ==
    /\ process_dict[w].busy
    /\ process_dict[w].todo # <<>>
    /\ LET p == Head(process_dict[w].todo)
       IN  /\ mgr_output_dict' =
                 StoreEntry(mgr_output_dict, p,
                            select_marker_genes_v2(marker_gene_array,
                                                   query_gene_names,
                                                   ParentPairs[p],
                                                   n_per_utility))
           /\ n_stored' = [n_stored EXCEPT ![p] = @ + 1]
    /\ process_dict' =
          [process_dict EXCEPT ![w].todo = Tail(process_dict[w].todo)]
    /\ UNCHANGED <<behemoth_cutoff, selector_processors, job_queue, all_pc,
                   output_json>>
    /\ UNCHANGED notAll

\* a worker whose job is finished exits
SelectorExit(w) ==
    /\ process_dict[w].busy
    /\ process_dict[w].todo = <<>>
    /\ process_dict' = [process_dict EXCEPT ![w] = NoJob]
    /\ UNCHANGED <<behemoth_cutoff, selector_processors, job_queue,
                   mgr_output_dict, n_stored, all_pc, output_json>>
    /\ UNCHANGED notAll

\* every job was started and every worker has exited: write the JSON
WriteSelection ==
    /\ all_pc = "running"
    /\ job_queue = <<>>
    /\ \A w \in DOMAIN process_dict : ~process_dict[w].busy
    /\ output_json' = mgr_output_dict
    /\ all_pc' = "returned"
    /\ UNCHANGED <<behemoth_cutoff, selector_processors, job_queue,
                   process_dict, mgr_output_dict, n_stored>>
    /\ UNCHANGED notAll

NextSelectAll ==
    \/ PartitionParents
    \/ \E w \in DOMAIN process_dict : StartSelector(w)
    \/ \E w \in DOMAIN process_dict : SelectorStore(w)
    \/ \E w \in DOMAIN process_dict : SelectorExit(w)
    \/ WriteSelection

SpecSelectAll == InitSelectAll /\ [][NextSelectAll]_vars

-----------------------------------------------------------------------------
(* create_marker_cache_from_reference_markers                             *)

MaxGeneNames == 3
MaxMarkersPerParent == 2

GeneAlphabet == {"g0", "g1", "g2"}

\* the keys of marker_lookup: None is the empty tuple, every other parent
\* the tuple (level, node)
LookupParents == {<<>>, <<"class", "aa">>}

\* the sequences over a set of at most n elements, and those without
\* repetition
SeqsUpTo(S, n) == UNION {[1..k -> S] : k \in 0..n}
DistinctSeqsUpTo(S, n) ==
    {q \in SeqsUpTo(S, n) : \A i, j \in DOMAIN q : q[i] = q[j] => i = j}

\* {n: ii for ii, n in enumerate(names)}: a later position of a repeated
\* name replaces an earlier one; positions count from 0
NameToInt(names) ==
    [n \in Range(names) |->
        CHOOSE ii \in 0..(Len(names) - 1) :
            /\ names[ii + 1] = n
            /\ \A jj \in 0..(Len(names) - 1) : names[jj + 1] = n => jj <= ii]

\* names[ii] for a position counted from 0
NameAt(names, ii) == names[ii + 1]

\* the list of a set of integers in increasing order (np.sort)
RECURSIVE SortedInts(_)
SortedInts(S) ==
    IF S = {} THEN <<>>
    ELSE LET lo == CHOOSE x \in S : \A y \in S : x <= y
         IN  <<lo>> \o SortedInts(S \ {lo})

\* these_reference / these_query: the index of each gene, in the order of
\* the list
IndexListSorted(lookup, genes) ==
    SortedInts({lookup[genes[i]] : i \in DOMAIN genes})
IndexList(lookup, genes) == [i \in DOMAIN genes |-> lookup[genes[i]]]

\* the path of the group a parent is written to
parent_grp(parent) ==
    IF parent = <<>> THEN <<"None">> ELSE <<parent[1], parent[2]>>

InitCache ==
    /\ cache_query_names \in SeqsUpTo(GeneAlphabet, MaxGeneNames) \ {<<>>}
    /\ reference_gene_names \in
          DistinctSeqsUpTo(GeneAlphabet, MaxGeneNames) \ {<<>>}
    /\ marker_lookup \in
          [LookupParents ->
              DistinctSeqsUpTo(Range(cache_query_names)
                                  \cap Range(reference_gene_names),
                               MaxMarkersPerParent)]
    /\ query_name_to_int = <<>>
    /\ reference_name_to_int = <<>>
    /\ created_groups = {}
    /\ cache_file = <<>>
    /\ cache_pc = "start"
    /\ IdleAssign
    /\ IdleH5ad
    /\ IdleIter
    /\ IdlePrecompute
    /\ IdleSelect
    /\ IdleSelectAll
    /\ IdleTranspose
    /\ IdleBinaryArray
    /\ IdleRunMapping
    /\ IdleTally
    /\ IdleAssemble
    /\ IdleStats
    /\ IdleAnnData
    /\ IdleOutputMap
    /\ IdleTaxonomy

\* lines 55-93: the datasets written before the loop over the parents
WriteHeader ==
    /\ cache_pc = "start"
    /\ query_name_to_int' = NameToInt(cache_query_names)
    /\ reference_name_to_int' = NameToInt(reference_gene_names)
    /\ LET used == UNION {Range(marker_lookup[p]) : p \in DOMAIN marker_lookup}
       IN  cache_file' =
              [k \in {<<"all_query_markers">>, <<"all_reference_markers">>,
                      <<"query_gene_names">>, <<"reference_gene_names">>} |->
                 CASE k = <<"all_query_markers">> ->
                         SortedInts({NameToInt(cache_query_names)[g] :
                                        g \in used})
                   [] k = <<"all_reference_markers">> ->
                         SortedInts({NameToInt(reference_gene_names)[g] :
                                        g \in used})
                   [] k = <<"query_gene_names">> -> cache_query_names
                   [] OTHER -> reference_gene_names]
    /\ cache_pc' = "loop"
    /\ UNCHANGED <<marker_lookup, cache_query_names, reference_gene_names,
                   created_groups>>
    /\ UNCHANGED notCache

\* lines 95-132: one pass of the loop over the parents
WriteParentGroup(parent) ==
    /\ cache_pc = "loop"
    /\ parent \in DOMAIN marker_lookup
    /\ parent_grp(parent) \notin created_groups
    /\ created_groups' = created_groups \cup {parent_grp(parent)}
    /\ LET these_reference ==
              IndexList(reference_name_to_int, marker_lookup[parent])
           these_query ==
              IndexList(query_name_to_int, marker_lookup[parent])
           entry == [reference |-> these_reference, query |-> these_query]
       IN  cache_file' =
              [k \in DOMAIN cache_file \cup {parent_grp(parent)} |->
                  IF k = parent_grp(parent) THEN entry ELSE cache_file[k]]
    /\ UNCHANGED <<marker_lookup, cache_query_names, reference_gene_names,
                   query_name_to_int, reference_name_to_int, cache_pc>>
    /\ UNCHANGED notCache

\* the loop has passed over every parent
CacheWritten ==
    /\ cache_pc = "loop"
    /\ \A parent \in DOMAIN marker_lookup :
          parent_grp(parent) \in created_groups
    /\ cache_pc' = "done"
    /\ UNCHANGED <<marker_lookup, cache_query_names, reference_gene_names,
                   query_name_to_int, reference_name_to_int, created_groups,
                   cache_file>>
    /\ UNCHANGED notCache

NextCache ==
    \/ WriteHeader
    \/ \E parent \in LookupParents : WriteParentGroup(parent)
    \/ CacheWritten

SpecCache == InitCache /\ [][NextCache]_vars

\* C15: in the cache written for the query, the `reference` and `query`
\* datasets of every parent have the length of the parent's marker list,
\* and at every position they index the same gene name, in the reference
\* and in the query gene names, namely the gene the selector returned at
\* that position.
C15_ReferenceAndQueryParallel ==
    \A parent \in DOMAIN marker_lookup :
        parent_grp(parent) \in DOMAIN cache_file =>
            LET grp == cache_file[parent_grp(parent)]
                genes == marker_lookup[parent]
            IN  /\ Len(grp.reference) = Len(genes)
                /\ Len(grp.query) = Len(genes)
                /\ \A i \in DOMAIN genes :
                      /\ NameAt(cache_file[<<"reference_gene_names">>],
                                grp.reference[i]) = genes[i]
                      /\ NameAt(cache_file[<<"query_gene_names">>],
                                grp.query[i]) = genes[i]

\* the cache is complete, a parent has two markers whose order in the
\* list is the reverse of their order in the query gene names, and the
\* query names a gene twice
C15_Witness ==
    /\ cache_pc = "done"
    /\ \E parent \in DOMAIN marker_lookup :
          /\ Len(marker_lookup[parent]) = 2
          /\ cache_file[parent_grp(parent)].query[1] >
                cache_file[parent_grp(parent)].query[2]
          /\ cache_file[parent_grp(parent)].reference[1] <
                cache_file[parent_grp(parent)].reference[2]
    /\ Cardinality(Range(cache_query_names)) < Len(cache_query_names)

-----------------------------------------------------------------------------
(* csc_to_csr_on_disk / transpose_sparse_matrix_on_disk                   *)

MaxLoadElements == 3

\* the shapes (n_rows, n_cols) and the values of the matrices transposed
TransposeShapes == {<<2, 3>>, <<3, 2>>}
TransposeValues == {0, 1, 2}

\* the dense matrix read by columns
TransposeDense(rows) ==
    [j \in 1..Len(rows[1]) |-> [i \in 1..Len(rows) |-> rows[i][j]]]

\* scipy_sparse.csc_matrix(data): indices are rows, indptr runs over columns
csc_matrix(rows) == csr_matrix(TransposeDense(rows))

\* pass 1: the new indptr, from the histogram of the row indices
HistogramIndptr(indices, n_indices) ==
    [i \in 1..(n_indices + 1) |->
        Cardinality({k \in DOMAIN indices : indices[k] < i - 1})]

\* the column (from 0) the k-th stored entry of a CSC matrix belongs to
ColumnOfEntry(indptr, k) ==
    CHOOSE j \in 0..(Len(indptr) - 2) : indptr[j + 1] < k /\ k <= indptr[j + 2]

\* the column after the group that starts at column c0: as many columns as
\* the budget holds, and at least one
GroupEnd(indptr, c0, budget) ==
    LET fits == {c1 \in (c0 + 1)..(Len(indptr) - 1) :
                    indptr[c1 + 1] - indptr[c0 + 1] <= budget}
    IN  IF fits = {} THEN c0 + 1
        ELSE CHOOSE c1 \in fits : \A c \in fits : c <= c1

\* the place (from 1) of the next entry of row r in its bucket
BucketPositionFromStart(indptr, placed, r) == indptr[r + 1] + 1
BucketPosition(indptr, placed, r) == indptr[r + 1] + placed[r + 1] + 1

\* pass 2 for the stored entries k..k_end of the CSC arrays
RECURSIVE ScatterEntries(_, _, _, _, _)
ScatterEntries(st, k, k_end, csc, indptr) ==
    IF k > k_end THEN st
    ELSE LET r == csc.indices[k]
             at == BucketPosition(indptr, st.placed, r)
         IN  ScatterEntries(
                [placed |-> [st.placed EXCEPT ![r + 1] = @ + 1],
                 data |-> [st.data EXCEPT ![at] = csc.data[k]],
                 indices |-> [st.indices EXCEPT
                                 ![at] = ColumnOfEntry(csc.indptr, k)]],
                k + 1, k_end, csc, indptr)

InitTranspose ==
    /\ \E shape \in TransposeShapes :
          x_array \in [1..shape[1] -> [1..shape[2] -> TransposeValues]]
    /\ max_elements \in 1..MaxLoadElements
    /\ use_data_array \in BOOLEAN
    /\ csc_group = csc_matrix(x_array)
    /\ csr_indptr = <<>>
    /\ csr_data = <<>>
    /\ csr_indices = <<>>
    /\ slots = <<>>
    /\ col0 = 0
    /\ n_groups = 0
    /\ tr_pc = "start"
    /\ IdleAssign
    /\ IdleH5ad
    /\ IdleIter
    /\ IdlePrecompute
    /\ IdleSelect
    /\ IdleSelectAll
    /\ IdleCache
    /\ IdleBinaryArray
    /\ IdleRunMapping
    /\ IdleTally
    /\ IdleAssemble
    /\ IdleStats
    /\ IdleAnnData
    /\ IdleOutputMap
    /\ IdleTaxonomy

\* pass 1: write indptr and create the output arrays at their full size
HistogramPass ==
    /\ tr_pc = "start"
    /\ csr_indptr' = HistogramIndptr(csc_group.indices, Len(x_array))
    /\ csr_indices' = [k \in DOMAIN csc_group.indices |-> 0]
    /\ csr_data' = [k \in DOMAIN csc_group.indices |-> 0]
    /\ slots' = [i \in DOMAIN x_array |-> 0]
    /\ tr_pc' = "scatter"
    /\ UNCHANGED <<x_array, max_elements, use_data_array, csc_group, col0,
                   n_groups>>
    /\ UNCHANGED notTr

\* pass 2: stream one group of columns into the buckets
ScatterGroup ==
    /\ tr_pc = "scatter"
    /\ col0 < Len(csc_group.indptr) - 1
    /\ LET col1 == GroupEnd(csc_group.indptr, col0, max_elements)
           st == ScatterEntries(
                    [placed |-> slots, data |-> csr_data,
                     indices |-> csr_indices],
                    csc_group.indptr[col0 + 1] + 1,
                    csc_group.indptr[col1 + 1], csc_group, csr_indptr)
       IN  /\ slots' = st.placed
           /\ csr_data' = st.data
           /\ csr_indices' = st.indices
           /\ col0' = col1
    /\ n_groups' = n_groups + 1
    /\ UNCHANGED <<x_array, max_elements, use_data_array, csc_group,
                   csr_indptr, tr_pc>>
    /\ UNCHANGED notTr

\* every column was streamed; without a data array the file has no `data`
FinishTranspose ==
    /\ tr_pc = "scatter"
    /\ col0 = Len(csc_group.indptr) - 1
    /\ csr_data' = IF use_data_array THEN csr_data ELSE <<>>
    /\ tr_pc' = "done"
    /\ UNCHANGED <<x_array, max_elements, use_data_array, csc_group,
                   csr_indptr, csr_indices, slots, col0, n_groups>>
    /\ UNCHANGED notTr

NextTranspose ==
    \/ HistogramPass
    \/ ScatterGroup
    \/ FinishTranspose

SpecTranspose == InitTranspose /\ [][NextTranspose]_vars

\* the slabs of rows r0..r1-1 of a matrix of n rows
RowSlabs(n) == {s \in (0..n) \X (0..n) : s[1] < s[2]}

\* C16: for every budget, hence every number of column groups, the CSR
\* file written from a CSC matrix holds the indptr, indices and data of
\* the canonical CSR form of the dense matrix, and loading any slab of
\* rows from it gives the dense rows; without a data array the indptr and
\* indices are the same and no data is written.
C16_TransposeIsCanonicalCsr ==
    tr_pc = "done" =>
        /\ csr_indptr = csr_matrix(x_array).indptr
        /\ csr_indices = csr_matrix(x_array).indices
        /\ csr_data =
              IF use_data_array THEN csr_matrix(x_array).data ELSE <<>>
        /\ use_data_array =>
              \A s \in RowSlabs(Len(x_array)) :
                  load_csr(s, Len(x_array[1]), csr_data, csr_indices,
                           csr_indptr)
                     = SubSeq(x_array, s[1] + 1, s[2])

\* a transposition with data that streamed at least two column groups,
\* for a matrix with a row whose entries differ and lie in several columns
C16_Witness ==
    /\ tr_pc = "done"
    /\ use_data_array
    /\ n_groups >= 2
    /\ \E i \in DOMAIN x_array :
          \E j, l \in DOMAIN x_array[i] :
              /\ j < l
              /\ x_array[i][j] # 0
              /\ x_array[i][l] # 0
              /\ x_array[i][j] # x_array[i][l]

-----------------------------------------------------------------------------
(* BinarizedBooleanArray and BackedBinarizedBooleanArray                  *)

\* the bits packed into one integer of the data array (np.uint8 holds 8;
\* the layout is the same for every width)
BitsPerInt == 2

\* (n_rows, n_cols) of the arrays, and (_load_row_size, _load_col_size)
ArrayShape == <<2, 3>>
LoadSizes == <<1, 1>>

n_int_from_n_cols(n) == CeilDiv(n, BitsPerInt)

ArrayRows == 0..(ArrayShape[1] - 1)
ArrayCols == 0..(ArrayShape[2] - 1)
ArrayInts == 0..(n_int_from_n_cols(ArrayShape[2]) - 1)
ArrayCells == ArrayRows \X ArrayInts

\* bit b (from 0, most significant first) of a packed integer
Bit(v, b) == (v \div Pow2(BitsPerInt - 1 - b)) % 2
SetBit(v, b, x) ==
    v - Bit(v, b) * Pow2(BitsPerInt - 1 - b) + x * Pow2(BitsPerInt - 1 - b)

\* the cell and the bit of column j of row i
CellOf(i, j) == <<i, j \div BitsPerInt>>
BitOf(j) == j % BitsPerInt

\* the single-bit writes <<row, column, value>> an operation makes, in
\* order; a row operation also overwrites the padding bits of the row
RowWrites(i, x) ==
    [b \in 1..(Cardinality(ArrayInts) * BitsPerInt) |-> <<i, b - 1, x>>]
ColWrites(j, col) == [r \in 1..ArrayShape[1] |-> <<r - 1, j, col[r]>>]
RECURSIVE OtherWrites(_, _)
OtherWrites(other, j0) ==
    IF other = <<>> THEN <<>>
    ELSE ColWrites(j0, Head(other)) \o OtherWrites(Tail(other), j0 + 1)

\* in memory: the writes change the packed integers in place
RECURSIVE MemApply(_, _)
MemApply(data, writes) ==
    IF writes = <<>> THEN data
    ELSE LET w == Head(writes)
             c == CellOf(w[1], w[2])
         IN  MemApply([data EXCEPT ![c] = SetBit(@, BitOf(w[2]), w[3])],
                      Tail(writes))

\* backed: the cells of the block that starts at an origin
BlockCells(origin) ==
    {c \in ArrayCells :
        /\ origin[1] <= c[1] /\ c[1] < origin[1] + LoadSizes[1]
        /\ origin[2] <= c[2] /\ c[2] < origin[2] + LoadSizes[2]}
BlockOrigin(c) ==
    <<(c[1] \div LoadSizes[1]) * LoadSizes[1],
      (c[2] \div LoadSizes[2]) * LoadSizes[2]>>

\* the dataset after the loaded block was written back
FlushBlockDropped(disk, origin, block) == disk
FlushBlock(disk, origin, block) ==
    IF origin = <<>> THEN disk
    ELSE [c \in ArrayCells |->
             IF c \in BlockCells(origin) THEN block[c] ELSE disk[c]]

\* make the block that holds a cell the loaded one
LoadFor(st, c) ==
    IF st.origin # <<>> /\ c \in BlockCells(st.origin) THEN st
    ELSE LET disk == FlushBlock(st.disk, st.origin, st.block)
         IN  [disk |-> disk, origin |-> BlockOrigin(c),
              block |-> [d \in BlockCells(BlockOrigin(c)) |-> disk[d]]]

RECURSIVE BackedApply(_, _)
BackedApply(st, writes) ==
    IF writes = <<>> THEN st
    ELSE LET w == Head(writes)
             c == CellOf(w[1], w[2])
             at == LoadFor(st, c)
         IN  BackedApply(
                [at EXCEPT !.block[c] = SetBit(@, BitOf(w[2]), w[3])],
                Tail(writes))

BackedState ==
    [disk |-> h5_data, origin |-> loaded_origin, block |-> loaded_block]

\* get_row / get_col of the in-memory array
MemGetRow(i) == [j \in ArrayCols |-> Bit(mem_data[CellOf(i, j)], BitOf(j))]
MemGetCol(j) == [i \in ArrayRows |-> Bit(mem_data[CellOf(i, j)], BitOf(j))]

\* get_row / get_col of the backed array: every cell is read through the
\* block loaded for it
BackedBit(i, j) ==
    Bit(LoadFor(BackedState, CellOf(i, j)).block[CellOf(i, j)], BitOf(j))
BackedGetRow(i) == [j \in ArrayCols |-> BackedBit(i, j)]
BackedGetCol(j) == [i \in ArrayRows |-> BackedBit(i, j)]

InitBinaryArray ==
    /\ mem_data \in [ArrayCells -> 0..(Pow2(BitsPerInt) - 1)]
    /\ h5_data = mem_data
    /\ loaded_origin = <<>>
    /\ loaded_block = <<>>
    /\ last_op = <<"from_data_array">>
    /\ IdleAssign
    /\ IdleH5ad
    /\ IdleIter
    /\ IdlePrecompute
    /\ IdleSelect
    /\ IdleSelectAll
    /\ IdleCache
    /\ IdleTranspose
    /\ IdleRunMapping
    /\ IdleTally
    /\ IdleAssemble
    /\ IdleStats
    /\ IdleAnnData
    /\ IdleOutputMap
    /\ IdleTaxonomy

\* the same operation applied to both arrays
ApplyToBoth(op, writes) ==
    /\ mem_data' = MemApply(mem_data, writes)
    /\ LET st == BackedApply(BackedState, writes)
       IN  /\ h5_data' = st.disk
           /\ loaded_origin' = st.origin
           /\ loaded_block' = st.block
    /\ last_op' = op
    /\ UNCHANGED notBa

set_row_true(i) ==
    /\ i \in ArrayRows
    /\ ApplyToBoth(<<"row", i>>, RowWrites(i, 1))
set_row_false(i) ==
    /\ i \in ArrayRows
    /\ ApplyToBoth(<<"row", i>>, RowWrites(i, 0))
set_col_true(j) ==
    /\ j \in ArrayCols
    /\ ApplyToBoth(<<"col", j, j>>,
                   ColWrites(j, [r \in 1..ArrayShape[1] |-> 1]))
set_col_false(j) ==
    /\ j \in ArrayCols
    /\ ApplyToBoth(<<"col", j, j>>,
                   ColWrites(j, [r \in 1..ArrayShape[1] |-> 0]))
set_col(j, col) ==
    /\ j \in ArrayCols
    /\ ApplyToBoth(<<"col", j, j>>, ColWrites(j, col))
copy_other_as_columns(other, j0) ==
    /\ j0 + Len(other) - 1 \in ArrayCols
    /\ ApplyToBoth(<<"col", j0, j0 + Len(other) - 1>>,
                   OtherWrites(other, j0))

\* reading a row or a column of the backed array leaves the block of the
\* last cell read loaded
get_row(i) ==
    /\ LET st == LoadFor(BackedState, CellOf(i, ArrayShape[2] - 1))
       IN  /\ h5_data' = st.disk
           /\ loaded_origin' = st.origin
           /\ loaded_block' = st.block
    /\ last_op' = <<"get">>
    /\ UNCHANGED mem_data
    /\ UNCHANGED notBa
get_col(j) ==
    /\ LET st == LoadFor(BackedState, CellOf(ArrayShape[1] - 1, j))
       IN  /\ h5_data' = st.disk
           /\ loaded_origin' = st.origin
           /\ loaded_block' = st.block
    /\ last_op' = <<"get">>
    /\ UNCHANGED mem_data
    /\ UNCHANGED notBa

ColumnValues == [1..ArrayShape[1] -> {0, 1}]

NextBinaryArray ==
    \/ \E i \in ArrayRows : set_row_true(i)
    \/ \E i \in ArrayRows : set_row_false(i)
    \/ \E j \in ArrayCols : set_col_true(j)
    \/ \E j \in ArrayCols : set_col_false(j)
    \/ \E j \in ArrayCols : \E col \in ColumnValues : set_col(j, col)
    \/ \E n \in 1..2 : \E other \in [1..n -> ColumnValues] :
          \E j0 \in 0..(ArrayShape[2] - n) : copy_other_as_columns(other, j0)
    \/ \E i \in ArrayRows : get_row(i)
    \/ \E j \in ArrayCols : get_col(j)

SpecBinaryArray == InitBinaryArray /\ [][NextBinaryArray]_vars

\* the bits of the in-memory array outside the rows or columns the last
\* operation was aimed at
Untouched(op) ==
    {b \in ArrayRows \X ArrayCols :
        CASE op[1] = "row" -> b[1] # op[2]
          [] op[1] = "col" -> b[2] < op[2] \/ b[2] > op[3]
          [] OTHER -> TRUE}

-----------------------------------------------------------------------------
(* run_mapping of cli/flat_mapping.py                                     *)

ConfigKeys == {"tmp_dir", "query_path", "type_assignment"}
MappingOutcomes == {"returns", "RuntimeError", "KeyError"}

\* lines 61-62: the keys the try body adds when _run_mapping has returned
TryOutputAlways(outcome) == {"results", "marker_genes"}
TryOutput(outcome) ==
    IF outcome = "returns" THEN {"results", "marker_genes"} ELSE {}

\* lines 63-67: the log after the try body or the except clause
LogAfterTry(lg, outcome) ==
    IF outcome = "returns"
    THEN Append(lg, <<"info", "RAN SUCCESSFULLY">>)
    ELSE Append(lg, <<"msg", "an ERROR occurred ====", outcome>>)

InitRunMapping ==
    /\ config \in SUBSET ConfigKeys
    /\ log_path \in {"None", "log_path"}
    /\ writable \in SUBSET {"output_path", "log_path"}
    /\ mapping_outcome \in MappingOutcomes
    /\ log = <<>>
    /\ tmp_dir = "none"
    /\ output_file = <<>>
    /\ log_file = <<>>
    /\ thrown = "none"
    /\ propagating = "none"
    /\ n_run_mapping = 0
    /\ rm_pc = "start"
    /\ IdleAssign
    /\ IdleH5ad
    /\ IdleIter
    /\ IdlePrecompute
    /\ IdleSelect
    /\ IdleSelectAll
    /\ IdleCache
    /\ IdleTranspose
    /\ IdleBinaryArray
    /\ IdleTally
    /\ IdleAssemble
    /\ IdleStats
    /\ IdleAnnData
    /\ IdleOutputMap
    /\ IdleTaxonomy

\* lines 32-33
RaiseNoTmpDir ==
    /\ rm_pc = "start"
    /\ "tmp_dir" \notin config
    /\ propagating' = "did not specify tmp_dir"
    /\ rm_pc' = "raised"
    /\ UNCHANGED <<config, log_path, writable, mapping_outcome, log, tmp_dir,
                   output_file, log_file, thrown, n_run_mapping>>
    /\ UNCHANGED notRm

\* lines 35-54: make the scratch directory and try the paths
CheckPaths ==
    /\ rm_pc = "start"
    /\ "tmp_dir" \in config
    /\ tmp_dir' = "exists"
    /\ IF {"output_path"} \cup ({log_path} \ {"None"}) \subseteq writable
       THEN /\ rm_pc' = "try"
            /\ UNCHANGED propagating
       ELSE /\ rm_pc' = "raised"
            /\ propagating' = "unable to write to"
    /\ UNCHANGED <<config, log_path, writable, mapping_outcome, log,
                   output_file, log_file, thrown, n_run_mapping>>
    /\ UNCHANGED notRm

\* lines 69-77: the finally clause, for the log and the output it finds
Finally(lg, keys) ==
    LET final_log == Append(lg, <<"info", "CLEANING UP">>)
    IN  /\ tmp_dir' = "removed"
        /\ log' = final_log
        /\ log_file' = IF log_path # "None" THEN final_log ELSE log_file
        /\ output_file' =
              [k \in keys \cup {"config", "log"} |->
                  CASE k = "config" -> config
                    [] k = "log" -> final_log
                    [] OTHER -> <<k>>]

\* lines 56-63 and 69-77: _run_mapping returns
MappingReturns ==
    /\ rm_pc = "try"
    /\ mapping_outcome = "returns"
    /\ n_run_mapping' = n_run_mapping + 1
    /\ Finally(LogAfterTry(log, mapping_outcome), TryOutput(mapping_outcome))
    /\ rm_pc' = "returned"
    /\ UNCHANGED <<config, log_path, writable, mapping_outcome, thrown,
                   propagating>>
    /\ UNCHANGED notRm

\* lines 56-60 and 64-77: _run_mapping raises
MappingRaises ==
    /\ rm_pc = "try"
    /\ mapping_outcome # "returns"
    /\ n_run_mapping' = n_run_mapping + 1
    /\ thrown' = mapping_outcome
    /\ Finally(LogAfterTry(log, mapping_outcome), TryOutput(mapping_outcome))
    /\ propagating' = mapping_outcome
    /\ rm_pc' = "raised"
    /\ UNCHANGED <<config, log_path, writable, mapping_outcome>>
    /\ UNCHANGED notRm

NextRunMapping ==
    \/ RaiseNoTmpDir
    \/ CheckPaths
    \/ MappingReturns
    \/ MappingRaises

SpecRunMapping == InitRunMapping /\ [][NextRunMapping]_vars

\* C18: when _run_mapping raises, the traceback is appended to the log
\* and the same exception leaves run_mapping, after a single call; whether
\* it raises or returns, the scratch directory is removed, the log is
\* written to log_path when one is given, and the output JSON holds
\* `config` and `log`, with `results` and `marker_genes` only when
\* _run_mapping returned.
C18_FailureIsLoggedAndReraised ==
    /\ n_run_mapping <= 1
    /\ n_run_mapping = 1 =>
          /\ tmp_dir = "removed"
          /\ log_path # "None" => log_file = log
          /\ output_file["config"] = config
          /\ output_file["log"] = log
          /\ DOMAIN output_file =
                IF thrown = "none"
                THEN {"config", "log", "results", "marker_genes"}
                ELSE {"config", "log"}
          /\ thrown = "none" => rm_pc = "returned" /\ propagating = "none"
          /\ thrown # "none" =>
                /\ rm_pc = "raised"
                /\ propagating = thrown
                /\ \E i \in DOMAIN log :
                      log[i] = <<"msg", "an ERROR occurred ====", thrown>>

\* _run_mapping raised a KeyError in a run with a log path
C18_Witness ==
    /\ rm_pc = "raised"
    /\ thrown = "KeyError"
    /\ log_path = "log_path"
    /\ log_file # <<>>
    /\ "log" \in DOMAIN output_file

-----------------------------------------------------------------------------
(* choose_node: the winner among the reference rows *)

\* the reference types of the parent whose votes were tallied
TalliedTypes == reference_types(taxonomy_tree, parent_level, parent_node)

\* row r of the vote table is the result choose_node reports for query row q
ReportedRow(q, r) ==
    /\ assignment[q].assignment = TalliedTypes[r]
    /\ assignment[q].bootstrapping_probability =
          <<votes[q][r], bootstrap_iteration>>
    /\ assignment[q].avg_correlation =
          <<corr_sum[q][r], votes[q][r] * CorrScale>>

\* row r beats row j by votes, then by correlation sum, then by the
\* lexicographic order of the child ids
BeatsOrEquals(q, r, j) ==
    \/ votes[q][r] > votes[q][j]
    \/ /\ votes[q][r] = votes[q][j]
       /\ corr_sum[q][r] > corr_sum[q][j]
    \/ /\ votes[q][r] = votes[q][j]
       /\ corr_sum[q][r] = corr_sum[q][j]
       /\ Rank(TalliedTypes[r]) <= Rank(TalliedTypes[j])

\* choose_node has just reported its result for a tallied parent
ChoseByVotes == pc = "record" /\ votes # <<>>

\* C19 as stated: the winner choose_node reports has the most votes, among
\* candidates tied on votes the higher correlation sum, and among those
\* still tied the lexicographically smallest child id.
C19_TiesBrokenByCorrelation ==
    ChoseByVotes =>
        \A q \in DOMAIN assignment :
            \E r \in DOMAIN votes[q] :
                /\ ReportedRow(q, r)
                /\ \A j \in DOMAIN votes[q] : BeatsOrEquals(q, r, j)

\* C19 as the code has it: the winner choose_node reports is the type of
\* the first reference row, in the order of reference_types, that no row
\* exceeds in votes; the correlation sums play no part in the choice.
C19_FirstRowWithMostVotesWins ==
    ChoseByVotes =>
        \A q \in DOMAIN assignment :
            \E r \in DOMAIN votes[q] :
                /\ ReportedRow(q, r)
                /\ \A j \in DOMAIN votes[q] : votes[q][j] <= votes[q][r]
                /\ \A j \in DOMAIN votes[q] :
                      j < r => votes[q][j] < votes[q][r]

\* two rows of different children tie on votes, the later one has the
\* higher correlation sum, and the earlier one is reported
C19_Witness ==
    /\ ChoseByVotes
    /\ \E q \in DOMAIN assignment :
          \E r, j \in DOMAIN votes[q] :
              /\ r < j
              /\ votes[q][r] = votes[q][j]
              /\ votes[q][r] > 0
              /\ corr_sum[q][j] > corr_sum[q][r]
              /\ TalliedTypes[r] # TalliedTypes[j]
              /\ ReportedRow(q, r)

-----------------------------------------------------------------------------
(* tally_votes: the size of the bootstrap sample and the markers drawn    *)

MaxMarkers == 4

\* bootstrap_factor is a fraction (<= 1.0), kept as a whole number of
\* parts of FactorDenominator, so that bootstrap_factor * n_markers is an
\* exact ratio
FactorDenominator == 8
FactorChoices == 1..FactorDenominator

\* np.round: to the nearest integer, a half to the even neighbour
RoundHalfEven(num, den) ==
    LET q == num \div den
        r == num % den
    IN  IF 2 * r < den THEN q
        ELSE IF 2 * r > den THEN q + 1
        ELSE IF q % 2 = 0 THEN q ELSE q + 1

\* n_bootstrap = np.round(bootstrap_factor*n_markers).astype(int)
NBootstrap(factor, n) == RoundHalfEven(factor * n, FactorDenominator)

InitTally ==
    /\ n_markers \in 1..MaxMarkers
    /\ bootstrap_factor \in FactorChoices
    /\ tally_iterations \in 1..MaxIter
    /\ n_bootstrap = 0
    /\ bootstrap_idx = <<>>
    /\ tally_iteration = 0
    /\ tv_pc = "start"
    /\ IdleAssign
    /\ IdleH5ad
    /\ IdleIter
    /\ IdlePrecompute
    /\ IdleSelect
    /\ IdleSelectAll
    /\ IdleCache
    /\ IdleTranspose
    /\ IdleBinaryArray
    /\ IdleRunMapping
    /\ IdleAssemble
    /\ IdleStats
    /\ IdleAnnData
    /\ IdleOutputMap
    /\ IdleTaxonomy

\* lines 672-674
SetNBootstrap ==
    /\ tv_pc = "start"
    /\ n_bootstrap' = NBootstrap(bootstrap_factor, n_markers)
    /\ tv_pc' = "loop"
    /\ UNCHANGED <<n_markers, bootstrap_factor, tally_iterations,
                   bootstrap_idx, tally_iteration>>
    /\ UNCHANGED notTv

\* lines 696-699: rng.choice(marker_idx, n_bootstrap, replace=False), then
\* np.sort; any set of n_bootstrap marker indices may be drawn
DrawMarkers ==
    /\ tv_pc = "loop"
    /\ tally_iteration < tally_iterations
    /\ \E drawn \in SUBSET (0..(n_markers - 1)) :
          /\ Cardinality(drawn) = n_bootstrap
          /\ bootstrap_idx' = SortedInts(drawn)
    /\ tally_iteration' = tally_iteration + 1
    /\ UNCHANGED <<n_markers, bootstrap_factor, tally_iterations, n_bootstrap,
                   tv_pc>>
    /\ UNCHANGED notTv

\* the loop over the iterations ends
TallyDone ==
    /\ tv_pc = "loop"
    /\ tally_iteration = tally_iterations
    /\ tv_pc' = "done"
    /\ UNCHANGED <<n_markers, bootstrap_factor, tally_iterations, n_bootstrap,
                   bootstrap_idx, tally_iteration>>
    /\ UNCHANGED notTv

NextTally ==
    \/ SetNBootstrap
    \/ DrawMarkers
    \/ TallyDone

SpecTally == InitTally /\ [][NextTally]_vars

\* C20: the size m of the bootstrap sample is
\* round(bootstrap_factor * n_markers) and lies between 1 and n_markers
\* for every bootstrap_factor and every n_markers >= 1, and each iteration
\* draws m pairwise distinct marker indices.
C20_SampleSizeWithinBounds ==
    tv_pc # "start" =>
        /\ 1 <= n_bootstrap
        /\ n_bootstrap <= n_markers
        /\ tally_iteration > 0 =>
              /\ Len(bootstrap_idx) = n_bootstrap
              /\ Cardinality(Range(bootstrap_idx)) = n_bootstrap
              /\ Range(bootstrap_idx) \subseteq 0..(n_markers - 1)

-----------------------------------------------------------------------------
(* assemble_query_data (matching.py): the reference rows, their types and  *)
(* the marker columns handed to the vote under one parent node             *)

MaxRefGenes == 2

\* column indices of the gene axis
RefGeneIdx == 0..(MaxRefGenes - 1)

\* the gene profiles a leaf mean or a query row is drawn from
ProfileChoices ==
    {[g \in RefGeneIdx |-> g + 1], [g \in RefGeneIdx |-> 10 + MaxRefGenes - g]}

\* parent_node: None, or a (level, node) pair of the tree
ParentChoices(tree) ==
    {<<"None", "None">>} \cup {<<"class", c>> : c \in DOMAIN tree}

\* array[idx]: the columns of a row in the order the index list gives
TakeColumnsSorted(row, idx) ==
    [k \in 1..Len(idx) |-> row[SortedInts(Range(idx))[k]]]
TakeColumns(row, idx) ==
    [k \in 1..Len(idx) |-> row[idx[k]]]

\* reference_data[ii, :] = mean_profile_lookup[child][reference_markers]
ReferenceData(tree, lev, node, lookup, markers) ==
    LET leaves == ReferenceLeaves(tree, lev, node)
    IN  [ii \in 1..Len(leaves) |-> TakeColumns(lookup[leaves[ii]], markers)]

InitAssemble ==
    /\ asm_tree \in TreeChoices
    /\ asm_parent \in ParentChoices(asm_tree)
    /\ mean_profile_lookup \in [LeafNodes -> ProfileChoices]
    /\ full_query_data \in [1..1 -> ProfileChoices]
    /\ reference_markers \in DistinctSeqsUpTo(RefGeneIdx, MaxRefGenes)
    /\ query_markers \in
          {s \in DistinctSeqsUpTo(RefGeneIdx, MaxRefGenes) :
              Len(s) = Len(reference_markers)}
    /\ asm_output = <<>>
    /\ asm_pc = "call"
    /\ IdleAssign
    /\ IdleH5ad
    /\ IdleIter
    /\ IdlePrecompute
    /\ IdleSelect
    /\ IdleSelectAll
    /\ IdleCache
    /\ IdleTranspose
    /\ IdleBinaryArray
    /\ IdleRunMapping
    /\ IdleTally
    /\ IdleStats
    /\ IdleAnnData
    /\ IdleOutputMap
    /\ IdleTaxonomy

\* the whole call: query_data, reference_data and reference_types
AssembleQueryData ==
    /\ asm_pc = "call"
    /\ asm_output' =
          [query_data |->
              [q \in DOMAIN full_query_data |->
                  TakeColumns(full_query_data[q], query_markers)],
           reference_data |->
              ReferenceData(asm_tree, asm_parent[1], asm_parent[2],
                            mean_profile_lookup, reference_markers),
           reference_types |->
              reference_types(asm_tree, asm_parent[1], asm_parent[2])]
    /\ asm_pc' = "done"
    /\ UNCHANGED <<asm_tree, asm_parent, mean_profile_lookup, full_query_data,
                   reference_markers, query_markers>>
    /\ UNCHANGED notAsm

NextAssemble == AssembleQueryData

SpecAssemble == InitAssemble /\ [][NextAssemble]_vars

-----------------------------------------------------------------------------
(* Properties of assemble_query_data                                       *)

AsmReturned == asm_pc = "done"
AsmChildren == children(asm_tree, asm_parent[1], asm_parent[2])
AsmChildLevel == IF asm_parent[1] = "None" THEN "class" ELSE "cluster"
AsmLeavesOf(c) == as_leaves(asm_tree, AsmChildLevel, c)
RowsOfType(c) ==
    {i \in DOMAIN asm_output.reference_types :
        asm_output.reference_types[i] = c}
MarkerColumnsOf(leaf) ==
    [k \in 1..Len(reference_markers) |->
        mean_profile_lookup[leaf][reference_markers[k]]]

\* C21 (as stated): the reference matrix handed to the vote has exactly one
\* row per direct child of the parent (the child's averaged profile).
C21_OneAveragedRowPerChild ==
    AsmReturned =>
        /\ Len(asm_output.reference_data) = Cardinality(AsmChildren)
        /\ \A c \in AsmChildren : Cardinality(RowsOfType(c)) = 1

\* C21 (amended): a direct child of the parent is represented by one
\* reference row per descendant leaf, each row being the mean profile of
\* that single leaf on the parent's markers and labelled with the child;
\* no profile is averaged over leaves.
C21_OneRowPerDescendantLeaf ==
    AsmReturned =>
        /\ Len(asm_output.reference_data) = Len(asm_output.reference_types)
        /\ \A c \in AsmChildren :
              /\ Cardinality(RowsOfType(c)) = Cardinality(AsmLeavesOf(c))
              /\ \A i \in RowsOfType(c) :
                    \E leaf \in AsmLeavesOf(c) :
                        asm_output.reference_data[i] = MarkerColumnsOf(leaf)

C21_Witness ==
    /\ AsmReturned
    /\ asm_parent[1] = "None"
    /\ Len(reference_markers) >= 1
    /\ \E c \in AsmChildren :
          /\ Cardinality(AsmLeavesOf(c)) >= 2
          /\ Cardinality(RowsOfType(c)) >= 2
          /\ \E i, j \in RowsOfType(c) :
                asm_output.reference_data[i] # asm_output.reference_data[j]

\* C22: reference_data has one row per leaf that descends from an immediate
\* child of the parent and no other row, the rows are in the string order
\* of the leaf names, reference_types[i] is the immediate child leaf i
\* descends from, and the columns are the parent's reference markers in the
\* order the cache lists them.
C22_RowsAreSortedDescendantLeaves ==
    AsmReturned =>
        LET leaves == SortNames(UNION {AsmLeavesOf(c) : c \in AsmChildren})
        IN  /\ Len(asm_output.reference_data) = Len(leaves)
            /\ Len(asm_output.reference_types) = Len(leaves)
            /\ \A i, j \in 1..Len(leaves) :
                  i < j => Rank(leaves[i]) < Rank(leaves[j])
            /\ \A i \in 1..Len(leaves) :
                  /\ asm_output.reference_types[i] \in AsmChildren
                  /\ leaves[i] \in AsmLeavesOf(asm_output.reference_types[i])
                  /\ Len(asm_output.reference_data[i]) = Len(reference_markers)
                  /\ \A k \in 1..Len(reference_markers) :
                        asm_output.reference_data[i][k] =
                            mean_profile_lookup[leaves[i]][reference_markers[k]]

C22_Witness ==
    /\ AsmReturned
    /\ asm_parent[1] = "class"
    /\ Len(asm_output.reference_data) >= 2
    /\ \E c \in DOMAIN asm_tree : c # asm_parent[2]
    /\ Len(reference_markers) = 2
    /\ reference_markers[1] > reference_markers[2]
    /\ asm_output.reference_data[1][1] # asm_output.reference_data[1][2]

-----------------------------------------------------------------------------
(* precompute_summary_stats and _summary_stats_worker (precompute.py):     *)
(* the clusters are divided among n_processors worker processes; a worker  *)
(* computes the stats of its clusters batch by batch and then writes its   *)
(* rows to the output file while it holds output_lock                      *)

MaxClusters == 3
MaxStatsProcessors == 2
MaxBatchRows == 2

\* the lengths the row list of a cluster is drawn from
ClusterLenChoices == {1, 2}

\* a cluster is named by its position ii in cluster_to_input_row
StatsClusters == 0..(Len(ss_cluster_len) - 1)
StatsWorkers == 1..ss_n_processors

\* cluster_to_output_row = {c: ii for ii, c in enumerate(cluster_list)}
cluster_to_output_row == [ii \in StatsClusters |-> ii]

\* n_per = np.ceil(len(cluster_to_input_row)/n_processors).astype(int)
NPerFloor(n, p) == Max2(1, n \div p)
NPer(n, p) == CeilDiv(n, p)

\* jj = ii // n_per ; worker_division[jj][cluster] = this
WorkerDivision(n, p) ==
    [w \in 1..p |-> SortedInts({ii \in 0..(n - 1) : ii \div NPer(n, p) = w - 1})]

\* the row-list lengths of the clusters of one worker, in its dict order
LensOf(w) ==
    [k \in 1..Len(worker_division[w]) |->
        ss_cluster_len[worker_division[w][k] + 1]]

\* while len(these_rows) < rows_at_a_time and i_cluster < len(cluster_list):
\* the value of i_cluster when the loop is left
RECURSIVE BatchEnd(_, _, _, _)
BatchEnd(lens, i, n_these_rows, rat) ==
    IF n_these_rows < rat /\ i < Len(lens)
    THEN BatchEnd(lens, i + 1, n_these_rows + lens[i + 1], rat)
    ELSE i

\* results[output_idx] = summary_stats, for the clusters of
\* sub_row_mapping; results is kept as the list of its (key, n_cells)
\* items in insertion order
RECURSIVE DictSet(_, _, _)
DictSet(d, key, val) ==
    IF d = <<>> THEN <<<<key, val>>>>
    ELSE IF Head(d)[1] = key THEN <<<<key, val>>>> \o Tail(d)
    ELSE <<Head(d)>> \o DictSet(Tail(d), key, val)

RECURSIVE StoreBatch(_, _, _, _, _)
StoreBatch(d, mine, lens, i0, i1) ==
    IF i0 >= i1 THEN d
    ELSE StoreBatch(DictSet(d, cluster_to_output_row[mine[i0 + 1]], lens[i0 + 1]),
                    mine, lens, i0 + 1, i1)

\* with output_lock: a manager lock is taken only when no process holds it
OutputLockFreeAlways(lock) == TRUE
OutputLockFree(lock) == lock = 0

NewStatsWorker ==
    [pc |-> "unstarted", i_cluster |-> 0, results |-> <<>>, to_write |-> <<>>]

InitStats ==
    /\ ss_cluster_len \in
          UNION {[1..n -> ClusterLenChoices] : n \in 1..MaxClusters}
    /\ ss_n_processors \in 1..MaxStatsProcessors
    /\ ss_rows_at_a_time \in 1..MaxBatchRows
    /\ worker_division = <<>>
    /\ ss_main_pc = "setup"
    /\ ss_started = 0
    /\ ss_joined = 0
    /\ ss_workers = [w \in 1..ss_n_processors |-> NewStatsWorker]
    /\ ss_lock = 0
    /\ ss_writers = {}
    /\ ss_out_file = <<>>
    /\ ss_handled = [ii \in 0..(Len(ss_cluster_len) - 1) |-> 0]
    /\ ss_written = [ii \in 0..(Len(ss_cluster_len) - 1) |-> 0]
    /\ IdleAssign
    /\ IdleH5ad
    /\ IdleIter
    /\ IdlePrecompute
    /\ IdleSelect
    /\ IdleSelectAll
    /\ IdleCache
    /\ IdleTranspose
    /\ IdleBinaryArray
    /\ IdleRunMapping
    /\ IdleTally
    /\ IdleAssemble
    /\ IdleAnnData
    /\ IdleOutputMap
    /\ IdleTaxonomy

\* the output file with its zero-filled datasets, and worker_division
CreateAndDivide ==
    /\ ss_main_pc = "setup"
    /\ ss_out_file' = [ii \in StatsClusters |-> 0]
    /\ worker_division' = WorkerDivision(Len(ss_cluster_len), ss_n_processors)
    /\ ss_main_pc' = "start"
    /\ UNCHANGED <<ss_cluster_len, ss_n_processors, ss_rows_at_a_time,
                   ss_started, ss_joined, ss_workers, ss_lock, ss_writers,
                   ss_handled, ss_written>>
    /\ UNCHANGED notSs

\* for cluster_set in worker_division: p.start()
StartStatsWorker ==
    /\ ss_main_pc = "start"
    /\ ss_started < ss_n_processors
    /\ ss_workers' = [ss_workers EXCEPT ![ss_started + 1].pc = "batch"]
    /\ ss_started' = ss_started + 1
    /\ ss_main_pc' = IF ss_started + 1 = ss_n_processors THEN "join" ELSE "start"
    /\ UNCHANGED <<ss_cluster_len, ss_n_processors, ss_rows_at_a_time,
                   worker_division, ss_joined, ss_lock, ss_writers,
                   ss_out_file, ss_handled, ss_written>>
    /\ UNCHANGED notSs

\* for p in process_list: p.join()
JoinStatsWorker ==
    /\ ss_main_pc = "join"
    /\ ss_joined < ss_n_processors
    /\ ss_workers[ss_joined + 1].pc \in {"done", "dead"}
    /\ ss_joined' = ss_joined + 1
    /\ ss_main_pc' = IF ss_joined + 1 = ss_n_processors THEN "returned" ELSE "join"
    /\ UNCHANGED <<ss_cluster_len, ss_n_processors, ss_rows_at_a_time,
                   worker_division, ss_started, ss_workers, ss_lock,
                   ss_writers, ss_out_file, ss_handled, ss_written>>
    /\ UNCHANGED notSs

\* one pass of `while keep_going` that loads at least one row: the batch
\* of clusters, their stats, and the test that ends the loop
WorkerBatch(w) ==
    /\ ss_workers[w].pc = "batch"
    /\ LET mine == worker_division[w]
           lens == LensOf(w)
           i0 == ss_workers[w].i_cluster
           i1 == BatchEnd(lens, i0, 0, ss_rows_at_a_time)
       IN  /\ i1 > i0
           /\ ss_workers' =
                 [ss_workers EXCEPT
                     ![w].i_cluster = i1,
                     ![w].results = StoreBatch(@, mine, lens, i0, i1),
                     ![w].pc = IF i1 >= Len(mine) THEN "lock" ELSE "batch"]
           /\ ss_handled' =
                 [ii \in DOMAIN ss_handled |->
                     IF \E k \in (i0 + 1)..i1 : mine[k] = ii
                     THEN ss_handled[ii] + 1 ELSE ss_handled[ii]]
    /\ UNCHANGED <<ss_cluster_len, ss_n_processors, ss_rows_at_a_time,
                   worker_division, ss_main_pc, ss_started, ss_joined,
                   ss_lock, ss_writers, ss_out_file, ss_written>>
    /\ UNCHANGED notSs

\* the pass of a worker that was given no cluster: these_rows is empty, and
\* the loader is called with an empty row list; it either returns an empty
\* matrix or raises, which ends the process
WorkerLoadsNothing(w) ==
    /\ ss_workers[w].pc = "batch"
    /\ BatchEnd(LensOf(w), ss_workers[w].i_cluster, 0, ss_rows_at_a_time)
          = ss_workers[w].i_cluster
    /\ \E loaded \in BOOLEAN :
          ss_workers' = [ss_workers EXCEPT
                            ![w].pc = IF loaded /\ ss_workers[w].i_cluster
                                                     >= Len(worker_division[w])
                                      THEN "lock"
                                      ELSE IF loaded THEN "batch" ELSE "dead"]
    /\ UNCHANGED <<ss_cluster_len, ss_n_processors, ss_rows_at_a_time,
                   worker_division, ss_main_pc, ss_started, ss_joined,
                   ss_lock, ss_writers, ss_out_file, ss_handled, ss_written>>
    /\ UNCHANGED notSs

\* with output_lock:
WorkerTakesLock(w) ==
    /\ ss_workers[w].pc = "lock"
    /\ OutputLockFree(ss_lock)
    /\ ss_lock' = w
    /\ ss_workers' = [ss_workers EXCEPT ![w].pc = "open"]
    /\ UNCHANGED <<ss_cluster_len, ss_n_processors, ss_rows_at_a_time,
                   worker_division, ss_main_pc, ss_started, ss_joined,
                   ss_writers, ss_out_file, ss_handled, ss_written>>
    /\ UNCHANGED notSs

\* with h5py.File(output_path, 'a') as out_file:
WorkerOpensFile(w) ==
    /\ ss_workers[w].pc = "open"
    /\ ss_writers' = ss_writers \cup {w}
    /\ ss_workers' = [ss_workers EXCEPT ![w].pc = "write",
                                        ![w].to_write = ss_workers[w].results]
    /\ UNCHANGED <<ss_cluster_len, ss_n_processors, ss_rows_at_a_time,
                   worker_division, ss_main_pc, ss_started, ss_joined,
                   ss_lock, ss_out_file, ss_handled, ss_written>>
    /\ UNCHANGED notSs

\* for output_idx in results: out_file['n_cells'][output_idx] = ... and the
\* rows of sum, sumsq, gt0, gt1
WorkerWritesRow(w) ==
    /\ ss_workers[w].pc = "write"
    /\ ss_workers[w].to_write # <<>>
    /\ LET output_idx == Head(ss_workers[w].to_write)[1]
           n_cells == Head(ss_workers[w].to_write)[2]
       IN  /\ ss_out_file' = [ss_out_file EXCEPT ![output_idx] = n_cells]
           /\ ss_written' = [ss_written EXCEPT ![output_idx] = @ + 1]
    /\ ss_workers' = [ss_workers EXCEPT ![w].to_write = Tail(@)]
    /\ UNCHANGED <<ss_cluster_len, ss_n_processors, ss_rows_at_a_time,
                   worker_division, ss_main_pc, ss_started, ss_joined,
                   ss_lock, ss_writers, ss_handled>>
    /\ UNCHANGED notSs

\* leaving `with h5py.File`: the file is closed
WorkerClosesFile(w) ==
    /\ ss_workers[w].pc = "write"
    /\ ss_workers[w].to_write = <<>>
    /\ ss_writers' = ss_writers \ {w}
    /\ ss_workers' = [ss_workers EXCEPT ![w].pc = "release"]
    /\ UNCHANGED <<ss_cluster_len, ss_n_processors, ss_rows_at_a_time,
                   worker_division, ss_main_pc, ss_started, ss_joined,
                   ss_lock, ss_out_file, ss_handled, ss_written>>
    /\ UNCHANGED notSs

\* leaving `with output_lock`: the lock is released and the worker exits
WorkerReleasesLock(w) ==
    /\ ss_workers[w].pc = "release"
    /\ ss_lock' = 0
    /\ ss_workers' = [ss_workers EXCEPT ![w].pc = "done"]
    /\ UNCHANGED <<ss_cluster_len, ss_n_processors, ss_rows_at_a_time,
                   worker_division, ss_main_pc, ss_started, ss_joined,
                   ss_writers, ss_out_file, ss_handled, ss_written>>
    /\ UNCHANGED notSs

NextStats ==
    \/ CreateAndDivide
    \/ StartStatsWorker
    \/ JoinStatsWorker
    \/ \E w \in StatsWorkers : WorkerBatch(w)
    \/ \E w \in StatsWorkers : WorkerLoadsNothing(w)
    \/ \E w \in StatsWorkers : WorkerTakesLock(w)
    \/ \E w \in StatsWorkers : WorkerOpensFile(w)
    \/ \E w \in StatsWorkers : WorkerWritesRow(w)
    \/ \E w \in StatsWorkers : WorkerClosesFile(w)
    \/ \E w \in StatsWorkers : WorkerReleasesLock(w)

\* the operating system schedules every process that can run, and a
\* released manager lock is handed to a waiting process
SpecStats == InitStats /\ [][NextStats]_vars /\ WF_vars(NextStats)

-----------------------------------------------------------------------------
(* Properties of precompute_summary_stats                                  *)

HoldsFileOrLock(w) == ss_workers[w].pc \in {"open", "write", "release"}

\* C23: at most one worker has the output file open for writing at any
\* time, every write of a stats row is made by the worker that holds
\* output_lock, and the lock is released after the writes, so that every
\* worker that was given clusters gets to write and the parent returns.
C23_WritesUnderOutputLock ==
    /\ [](/\ Cardinality(ss_writers) <= 1
          /\ Cardinality({w \in StatsWorkers : HoldsFileOrLock(w)}) <= 1
          /\ \A w \in StatsWorkers : HoldsFileOrLock(w) => ss_lock = w)
    /\ [][ss_written' # ss_written =>
              \E w \in StatsWorkers :
                  /\ ss_lock = w
                  /\ ss_writers = {w}
                  /\ ss_workers'[w].to_write # ss_workers[w].to_write]_vars
    /\ <>[](/\ ss_main_pc = "returned"
            /\ ss_lock = 0
            /\ ss_writers = {}
            /\ \A w \in StatsWorkers :
                  worker_division[w] # <<>> =>
                      /\ ss_workers[w].pc = "done"
                      /\ \A k \in DOMAIN worker_division[w] :
                            ss_written[worker_division[w][k]] >= 1)

C23_Witness ==
    \E w, v \in StatsWorkers :
        /\ w # v
        /\ ss_workers[w].pc = "write"
        /\ ss_workers[w].to_write # <<>>
        /\ ss_workers[v].pc = "lock"
        /\ worker_division[v] # <<>>
        /\ ss_written[worker_division[v][1]] = 0

\* C24: every cluster is given to exactly one worker, the one of index
\* ii // ceil(n_clusters / n_processors) < n_processors; the batching loop
\* of every worker ends; a cluster is handled at most once and its row
\* written at most once, and when precompute_summary_stats returns every
\* cluster was handled once and its stats written once at its own row.
C24_EachClusterWrittenOnce ==
    /\ [](ss_main_pc # "setup" =>
            \A ii \in StatsClusters :
                LET n_per == CeilDiv(Len(ss_cluster_len), ss_n_processors)
                    jj == ii \div n_per
                IN  /\ jj < ss_n_processors
                    /\ \A w \in StatsWorkers :
                          (ii \in Range(worker_division[w])) <=> (w = jj + 1))
    /\ [](\A ii \in StatsClusters : ss_handled[ii] <= 1 /\ ss_written[ii] <= 1)
    /\ [](ss_main_pc = "returned" =>
            /\ \A ii \in StatsClusters :
                  /\ ss_handled[ii] = 1
                  /\ ss_written[ii] = 1
                  /\ ss_out_file[cluster_to_output_row[ii]] = ss_cluster_len[ii + 1]
            /\ \A ii, kk \in StatsClusters :
                  cluster_to_output_row[ii] = cluster_to_output_row[kk] => ii = kk)
    /\ <>[](\A w \in StatsWorkers : ss_workers[w].pc \notin {"unstarted", "batch"})

C24_Witness ==
    /\ ss_main_pc = "returned"
    /\ Len(ss_cluster_len) = MaxClusters
    /\ ss_n_processors = 2
    /\ ss_rows_at_a_time = 1
    /\ \A w \in StatsWorkers : ss_workers[w].pc = "done"
    /\ \E w \in StatsWorkers : ss_workers[w].i_cluster >= 2

-----------------------------------------------------------------------------
(* AnnDataRowIterator (anndata_iterator.py): the choice of the row source  *)
(* in __init__ and _initialize_as_csc, and the triples __next__ returns    *)

\* in_file['X'].attrs['encoding-type'], '' when the attribute is absent
EncodingTypes == {"csr_matrix", "csc_matrix", "array", ""}

\* the names a directory under tmp_dir can have
DirNames == {"tmp_a", "tmp_b"}

\* the rows of X, whatever the layout they are stored in
XRow(r) == <<r, 0>>
XRows(r0, r1) == [i \in 1..(r1 - r0) |-> XRow(r0 + i - 1)]

\* encoding_type.startswith(...)
IsCsr(attrs) == attrs.encoding_type = "csr_matrix"
IsCsc(attrs) == attrs.encoding_type = "csc_matrix"

\* the branch of __init__ / _initialize_as_csc that is taken
ReadsCsrDirectlyAnyShape(attrs) == IsCsr(attrs)
ReadsCsrDirectly(attrs) == IsCsr(attrs) /\ attrs.has_shape

WritesAsCsr(attrs, dir) ==
    /\ ~ReadsCsrDirectly(attrs)
    /\ IsCsc(attrs)
    /\ dir # "None"
    /\ attrs.has_shape

\* if not isinstance(result, np.ndarray): result = result.toarray()
ToArrayKeepsFormat(chunk) == chunk
ToArray(chunk) == [format |-> "ndarray", rows |-> chunk.rows]

InitAnnData ==
    /\ h5ad_is_file \in BOOLEAN
    /\ x_attrs \in [encoding_type : EncodingTypes, has_shape : BOOLEAN]
    /\ x_n_rows \in 1..MaxRows
    /\ ad_row_chunk_size \in 1..MaxRowChunk
    /\ arg_tmp_dir \in {"None", "scratch"}
    /\ scratch_dirs \in {{}, {"tmp_a"}}
    /\ self_tmp_dir = "None"
    /\ iterator_type = ""
    /\ chunk_source = <<>>
    /\ ad_r0 = 0
    /\ ad_yielded = <<>>
    /\ ad_pc = "init"
    /\ IdleAssign
    /\ IdleH5ad
    /\ IdleIter
    /\ IdlePrecompute
    /\ IdleSelect
    /\ IdleSelectAll
    /\ IdleCache
    /\ IdleTranspose
    /\ IdleBinaryArray
    /\ IdleRunMapping
    /\ IdleTally
    /\ IdleAssemble
    /\ IdleStats
    /\ IdleOutputMap
    /\ IdleTaxonomy

AdUnchangedInputs ==
    UNCHANGED <<h5ad_is_file, x_attrs, x_n_rows, ad_row_chunk_size, arg_tmp_dir>>

\* if not h5ad_path.is_file(): raise RuntimeError
RaiseNotAFile ==
    /\ ad_pc = "init"
    /\ ~h5ad_is_file
    /\ ad_pc' = "raised"
    /\ AdUnchangedInputs
    /\ UNCHANGED <<scratch_dirs, self_tmp_dir, iterator_type, chunk_source,
                   ad_r0, ad_yielded>>
    /\ UNCHANGED notAd

\* encoding_type.startswith('csr') and array_shape is not None
InitAsCsr ==
    /\ ad_pc = "init"
    /\ h5ad_is_file
    /\ ReadsCsrDirectly(x_attrs)
    /\ iterator_type' = "CSRRow"
    /\ chunk_source' = [reader |-> "CSRRowIterator", h5_path |-> <<"h5ad">>,
                        h5_group |-> "X", layout |-> "csr"]
    /\ ad_pc' = "iterating"
    /\ AdUnchangedInputs
    /\ UNCHANGED <<scratch_dirs, self_tmp_dir, ad_r0, ad_yielded>>
    /\ UNCHANGED notAd

\* _initialize_as_csc with write_as_csr: tempfile.mkdtemp(dir=tmp_dir),
\* mkstemp_clean in it, csc_to_csr_on_disk, CSRRowIterator over the new file
InitAsCscTransposed ==
    /\ ad_pc = "init"
    /\ h5ad_is_file
    /\ WritesAsCsr(x_attrs, arg_tmp_dir)
    /\ \E d \in DirNames \ scratch_dirs :
          /\ scratch_dirs' = scratch_dirs \cup {d}
          /\ self_tmp_dir' = d
          /\ chunk_source' = [reader |-> "CSRRowIterator",
                              h5_path |-> <<arg_tmp_dir, d, "as_csr.h5">>,
                              h5_group |-> "None", layout |-> "csr"]
    /\ iterator_type' = "CSRRow"
    /\ ad_pc' = "iterating"
    /\ AdUnchangedInputs
    /\ UNCHANGED <<ad_r0, ad_yielded>>
    /\ UNCHANGED notAd

\* _initialize_anndata_iterator: anndata.read_h5ad(backed='r').chunked_X
InitAsAnndata ==
    /\ ad_pc = "init"
    /\ h5ad_is_file
    /\ ~ReadsCsrDirectly(x_attrs)
    /\ ~WritesAsCsr(x_attrs, arg_tmp_dir)
    /\ iterator_type' = "anndata"
    /\ chunk_source' = [reader |-> "chunked_X", h5_path |-> <<"h5ad">>,
                        h5_group |-> "X",
                        layout |-> x_attrs.encoding_type]
    /\ ad_pc' = "iterating"
    /\ AdUnchangedInputs
    /\ UNCHANGED <<scratch_dirs, self_tmp_dir, ad_r0, ad_yielded>>
    /\ UNCHANGED notAd

\* __next__ over a CSRRowIterator: (load_csr(...), old_r0, r1)
NextFromCsr ==
    /\ ad_pc = "iterating"
    /\ iterator_type = "CSRRow"
    /\ ad_r0 < x_n_rows
    /\ LET r1 == Min2(x_n_rows, ad_r0 + ad_row_chunk_size)
       IN  /\ ad_yielded' =
                 Append(ad_yielded,
                        <<[format |-> "ndarray", rows |-> XRows(ad_r0, r1)],
                          ad_r0, r1>>)
           /\ ad_r0' = r1
    /\ AdUnchangedInputs
    /\ UNCHANGED <<scratch_dirs, self_tmp_dir, iterator_type, chunk_source, ad_pc>>
    /\ UNCHANGED notAd

\* __next__ over chunked_X: the reader hands out (chunk, start, end) with a
\* dense or a sparse chunk; a chunk that is no ndarray is converted
NextFromAnndata ==
    /\ ad_pc = "iterating"
    /\ iterator_type = "anndata"
    /\ ad_r0 < x_n_rows
    /\ \E fmt \in {"ndarray", "sparse"} :
          LET r1 == Min2(x_n_rows, ad_r0 + ad_row_chunk_size)
              next_result == <<[format |-> fmt, rows |-> XRows(ad_r0, r1)], ad_r0, r1>>
          IN  /\ ad_yielded' =
                    Append(ad_yielded,
                           <<IF next_result[1].format # "ndarray"
                             THEN ToArray(next_result[1]) ELSE next_result[1],
                             next_result[2], next_result[3]>>)
              /\ ad_r0' = r1
    /\ AdUnchangedInputs
    /\ UNCHANGED <<scratch_dirs, self_tmp_dir, iterator_type, chunk_source, ad_pc>>
    /\ UNCHANGED notAd

\* the call of __next__ that finds the row source exhausted
AdStopIteration ==
    /\ ad_pc = "iterating"
    /\ ad_r0 >= x_n_rows
    /\ ad_pc' = "stopped"
    /\ AdUnchangedInputs
    /\ UNCHANGED <<scratch_dirs, self_tmp_dir, iterator_type, chunk_source,
                   ad_r0, ad_yielded>>
    /\ UNCHANGED notAd

NextAnnData ==
    \/ RaiseNotAFile
    \/ InitAsCsr
    \/ InitAsCscTransposed
    \/ InitAsAnndata
    \/ NextFromCsr
    \/ NextFromAnndata
    \/ AdStopIteration

SpecAnnData == InitAnnData /\ [][NextAnnData]_vars

-----------------------------------------------------------------------------
(* Properties of AnnDataRowIterator                                        *)

AdConstructed == ad_pc \in {"iterating", "stopped"}
ReadsXWithCsrIterator ==
    /\ iterator_type = "CSRRow"
    /\ chunk_source.reader = "CSRRowIterator"
    /\ chunk_source.h5_path = <<"h5ad">>
ReadsTransposedCopy ==
    /\ iterator_type = "CSRRow"
    /\ chunk_source.reader = "CSRRowIterator"
    /\ self_tmp_dir \in DirNames
    /\ chunk_source.h5_path = <<arg_tmp_dir, self_tmp_dir, "as_csr.h5">>
    /\ chunk_source.layout = "csr"
ReadsWithChunkedReader ==
    /\ iterator_type = "anndata"
    /\ chunk_source.reader = "chunked_X"
    /\ self_tmp_dir = "None"
YieldsDenseTriples ==
    \A k \in DOMAIN ad_yielded :
        /\ ad_yielded[k][1].format = "ndarray"
        /\ ad_yielded[k][2] < ad_yielded[k][3]
        /\ ad_yielded[k][1].rows = XRows(ad_yielded[k][2], ad_yielded[k][3])

\* C25 (as stated): every CSR matrix is read directly by CSRRowIterator,
\* every CSC matrix is transposed to a CSR file in a fresh scratch
\* directory whenever tmp_dir is given, a CSC matrix without tmp_dir and
\* any other layout go to the chunked reader, and every triple yielded is
\* (dense chunk, r0, r1).
C25_SourceChosenByLayoutAndTmpDir ==
    AdConstructed =>
        /\ IsCsr(x_attrs) => ReadsXWithCsrIterator
        /\ (IsCsc(x_attrs) /\ arg_tmp_dir # "None") => ReadsTransposedCopy
        /\ (~IsCsr(x_attrs) /\ ~(IsCsc(x_attrs) /\ arg_tmp_dir # "None"))
              => ReadsWithChunkedReader
        /\ YieldsDenseTriples

\* C25 (amended): a CSR matrix whose X carries a shape attribute is read
\* directly by CSRRowIterator; a CSC matrix whose X carries a shape
\* attribute is transposed to a CSR file in a directory newly made under
\* tmp_dir and read by CSRRowIterator when tmp_dir is given; every other
\* case (no tmp_dir, no shape attribute, any other layout) goes to the
\* chunked reader; every triple yielded is (dense chunk, r0, r1).
C25_SourceChosenByLayoutShapeAndTmpDir ==
    /\ AdConstructed =>
          /\ (IsCsr(x_attrs) /\ x_attrs.has_shape) => ReadsXWithCsrIterator
          /\ (IsCsc(x_attrs) /\ x_attrs.has_shape /\ arg_tmp_dir # "None")
                => ReadsTransposedCopy
          /\ (~x_attrs.has_shape
              \/ ~(IsCsr(x_attrs) \/ (IsCsc(x_attrs) /\ arg_tmp_dir # "None")))
                => ReadsWithChunkedReader
          /\ h5ad_is_file
    /\ YieldsDenseTriples
    /\ self_tmp_dir # "None" => self_tmp_dir \in scratch_dirs

C25_Witness ==
    /\ ad_pc = "stopped"
    /\ IsCsc(x_attrs)
    /\ ReadsTransposedCopy
    /\ "tmp_a" \in scratch_dirs
    /\ self_tmp_dir = "tmp_b"
    /\ Len(ad_yielded) >= 2

-----------------------------------------------------------------------------
(* ReferenceMarkerRunner.create_input_to_output_map (reference_markers.py) *)
(* A path is <<directory, name>>; a name is the list of its parts between  *)
(* dots; None is the empty tuple and a salt k is the tuple <<k>>           *)

MaxInputs == 3

InputDirs == {"a", "b"}
InputNames == {<<"stats", "h5">>, <<"other", "h5">>, <<"stats", "0", "h5">>}
InputPaths == InputDirs \X InputNames

\* pathlib.Path(self.args['output_dir'])
output_dir == "out"

\* the salt of the next pass of `while True`: unchanged on the first pass
\* for an input (new_path is None), then 0, 1, 2, ...
NextSalt(s, path) ==
    IF path = <<>> THEN s
    ELSE IF s = <<>> THEN <<0>>
    ELSE <<s[1] + 1>>

\* f'{salt}': the decimal string of a salt
Str(k) == <<"0", "1", "2", "3", "4", "5", "6", "7", "8", "9">>[k + 1]

\* input_name.replace(old_stem, new_stem, 1), old_stem being the part of
\* the name before its first dot
NewName(input_name, s) ==
    <<"reference_markers">> \o (IF s = <<>> THEN <<>> ELSE <<Str(s[1])>>)
        \o Tail(input_name)

\* str(output_dir/new_name)
NewPath(input_name, s) == <<output_dir, NewName(input_name, s)>>

\* if new_path not in files_to_write
NameIsFreeAlways(path, files) == TRUE
NameIsFree(path, files) == path \notin files

\* input_to_output[str(input_path)] = new_path
SetOutput(d, key, val) ==
    [k \in DOMAIN d \cup {key} |-> IF k = key THEN val ELSE d[k]]

InitOutputMap ==
    /\ precomputed_path_list \in SeqsUpTo(InputPaths, MaxInputs)
    /\ clobber \in BOOLEAN
    /\ on_disk \in {"absent", "file", "directory"}
    /\ dir_writable \in BOOLEAN
    \* something exists in output_dir only if output_dir itself exists
    /\ on_disk # "absent" => dir_writable
    /\ io_idx = 1
    /\ salt = <<>>
    /\ new_path = <<>>
    /\ files_to_write = {}
    /\ input_to_output = <<>>
    /\ io_pc = "naming"
    /\ IdleAssign
    /\ IdleH5ad
    /\ IdleIter
    /\ IdlePrecompute
    /\ IdleSelect
    /\ IdleSelectAll
    /\ IdleCache
    /\ IdleTranspose
    /\ IdleBinaryArray
    /\ IdleRunMapping
    /\ IdleTally
    /\ IdleAssemble
    /\ IdleStats
    /\ IdleAnnData
    /\ IdleTaxonomy

IoUnchangedInputs ==
    UNCHANGED <<precomputed_path_list, clobber, on_disk, dir_writable>>

\* a pass of `while True` that finds the name taken
NameTaken ==
    /\ io_pc = "naming"
    /\ io_idx <= Len(precomputed_path_list)
    /\ LET input_name == precomputed_path_list[io_idx][2]
           s == NextSalt(salt, new_path)
       IN  /\ ~NameIsFree(NewPath(input_name, s), files_to_write)
           /\ salt' = s
           /\ new_path' = NewPath(input_name, s)
    /\ IoUnchangedInputs
    /\ UNCHANGED <<io_idx, files_to_write, input_to_output, io_pc>>
    /\ UNCHANGED notIo

\* a pass of `while True` that finds the name free: the name is reserved,
\* the input mapped to it, and the for loop moves to the next input
NameAccepted ==
    /\ io_pc = "naming"
    /\ io_idx <= Len(precomputed_path_list)
    /\ LET input_name == precomputed_path_list[io_idx][2]
           s == NextSalt(salt, new_path)
       IN  /\ NameIsFree(NewPath(input_name, s), files_to_write)
           /\ salt' = s
           /\ files_to_write' = files_to_write \cup {NewPath(input_name, s)}
           /\ input_to_output' =
                 SetOutput(input_to_output, precomputed_path_list[io_idx],
                           NewPath(input_name, s))
    /\ new_path' = <<>>
    /\ io_idx' = io_idx + 1
    /\ IoUnchangedInputs
    /\ UNCHANGED io_pc
    /\ UNCHANGED notIo

\* what the checks after the loop find wrong with an output path: the
\* unsalted .h5 name is the one that may already exist on disk
OutputErrors ==
    LET here == <<output_dir, <<"reference_markers", "h5">>>>
        exists == here \in Range(input_to_output) /\ on_disk # "absent"
    IN  IF exists /\ on_disk = "directory" THEN {"exists and is not a file"}
        ELSE IF exists /\ ~clobber THEN {"already exists"}
        ELSE IF DOMAIN input_to_output # {} /\ ~dir_writable
             THEN {"cannot write"}
        ELSE {}

\* error_msg is empty: return input_to_output
ReturnOutputMap ==
    /\ io_pc = "naming"
    /\ io_idx > Len(precomputed_path_list)
    /\ OutputErrors = {}
    /\ io_pc' = "returned"
    /\ IoUnchangedInputs
    /\ UNCHANGED <<io_idx, salt, new_path, files_to_write, input_to_output>>
    /\ UNCHANGED notIo

\* raise RuntimeError(error_msg)
RaiseOutputError ==
    /\ io_pc = "naming"
    /\ io_idx > Len(precomputed_path_list)
    /\ OutputErrors # {}
    /\ io_pc' = "raised"
    /\ IoUnchangedInputs
    /\ UNCHANGED <<io_idx, salt, new_path, files_to_write, input_to_output>>
    /\ UNCHANGED notIo

NextOutputMap ==
    \/ NameTaken
    \/ NameAccepted
    \/ ReturnOutputMap
    \/ RaiseOutputError

\* the method runs in one thread that is never suspended for ever
SpecOutputMap ==
    InitOutputMap /\ [][NextOutputMap]_vars /\ WF_vars(NextOutputMap)

-----------------------------------------------------------------------------
(* Properties of create_input_to_output_map                                *)

\* C26: the method ends (it returns or raises), every input path is mapped,
\* distinct input paths are mapped to distinct output paths, each output
\* path is a file name directly inside output_dir, and a salt is an integer
\* that only grows while a name is taken.
C26_DistinctOutputsInOutputDir ==
    /\ [](\A p, q \in DOMAIN input_to_output :
            /\ p # q => input_to_output[p] # input_to_output[q]
            /\ input_to_output[p][1] = output_dir
            /\ input_to_output[p][2][1] = "reference_markers"
            /\ input_to_output[p] \in files_to_write)
    /\ [](io_pc \in {"returned", "raised"} =>
            DOMAIN input_to_output = Range(precomputed_path_list))
    /\ [][salt' # salt =>
            /\ salt' = IF salt = <<>> THEN <<0>> ELSE <<salt[1] + 1>>
            /\ new_path # <<>>
            /\ new_path \in files_to_write]_vars
    /\ <>[](io_pc \in {"returned", "raised"})

C26_Witness ==
    /\ io_pc = "returned"
    /\ salt = <<1>>
    /\ Cardinality(DOMAIN input_to_output) = MaxInputs
    /\ \E p, q \in DOMAIN input_to_output : p # q /\ p[2] = q[2]

-----------------------------------------------------------------------------
(* run_type_assignment: the entries of result                              *)

\* the cells whose entry at a level differs between two values of result
ChangedEntries(old, new) ==
    {<<c, lev>> \in (DOMAIN old) \X Range(hierarchy) : new[c][lev] # old[c][lev]}

\* C27: when run_type_assignment has returned, every query cell has an
\* entry other than the initial None at every level of the hierarchy, with
\* an assignment to a node of that level; a step that changes result
\* changes only entries at the child level of the parent being processed,
\* and only those of cells whose entry at the parent level is that parent
\* (every cell at the root).
C27_EveryLevelFilledAndFrame ==
    /\ [](pc = "done" =>
            \A c \in DOMAIN result : \A lev \in Range(hierarchy) :
                /\ result[c][lev] # NoneResult
                /\ DOMAIN result[c][lev] =
                      {"assignment", "bootstrapping_probability", "avg_correlation"}
                /\ result[c][lev].assignment \in nodes_at_level(taxonomy_tree, lev))
    /\ [][\A e \in ChangedEntries(result, result') :
             /\ e[2] = child_level
             /\ \/ parent_level = "None"
                \/ result[e[1]][parent_level].assignment = parent_node
             /\ result[e[1]][child_level] = NoneResult]_vars

C27_Witness ==
    /\ pc = "done"
    /\ Cardinality(DOMAIN taxonomy_tree) = 2
    /\ \E c, d \in DOMAIN result :
          result[c]["class"].assignment # result[d]["class"].assignment
    /\ \A c \in DOMAIN result : result[c]["cluster"] # NoneResult

-----------------------------------------------------------------------------
(* run_type_assignment_on_h5ad_cpu: the pool of worker processes           *)

\* the workers that were started and have not been dropped from
\* process_list by winnow_process_list
StartedNotReaped == Range(process_list)

\* C28: at no time are more than n_processors workers started and not yet
\* reaped; the workers are started one per row chunk, the k-th for the rows
\* from (k-1)*chunk_size, so in ascending r0 order without gap or overlap;
\* and the function returns only when every worker it started has exited
\* and every chunk of the file got its worker.
C28_PoolBoundedAndJoined ==
    /\ Cardinality(StartedNotReaped) <= n_processors
    /\ Len(process_list) = Cardinality(StartedNotReaped)
    /\ \A w \in DOMAIN workers :
          /\ workers[w].pc # "exited" => w \in StartedNotReaped
          /\ workers[w].r0 = (w - 1) * chunk_size
          /\ workers[w].r1 = Min2(n_rows, w * chunk_size)
          /\ workers[w].r0 < workers[w].r1
    /\ \A i, j \in DOMAIN process_list : i < j => process_list[i] < process_list[j]
    /\ main_pc = "returned" =>
          /\ process_list = <<>>
          /\ \A w \in DOMAIN workers : workers[w].pc = "exited"
          /\ Len(workers) = CeilDiv(n_rows, chunk_size)

C28_Witness ==
    /\ main_pc = "winnow"
    /\ n_processors >= 2
    /\ Len(process_list) = n_processors
    /\ Len(workers) > n_processors
    /\ \A w \in StartedNotReaped : workers[w].pc # "exited"

-----------------------------------------------------------------------------
(* precompute_summary_stats_from_h5ad_and_tree on a matrix with rows that  *)
(* the taxonomy lists under no leaf                                        *)

\* the taxonomy lists some rows of the matrix under its leaves and leaves
\* at least one row out; the matrix is already log2CPM
InitPrecomputeUnlisted ==
    /\ normalization = "log2CPM"
    /\ \E n \in 1..MaxCells :
          /\ a_data \in [1..n -> [DOMAIN GeneNames -> ExpressionValues]]
          /\ \E f \in [0..(n - 1) -> Range(ClusterNames) \cup {"unlisted"}] :
                /\ \E r \in 0..(n - 1) : f[r] = "unlisted"
                /\ \E r \in 0..(n - 1) : f[r] # "unlisted"
                /\ cluster_to_input_row =
                      [c \in {f[r] : r \in 0..(n - 1)} \ {"unlisted"} |->
                          {r \in 0..(n - 1) : f[r] = c}]
    /\ rows_at_a_time \in 1..MaxCells
    /\ processed_cells = 0
    /\ buffer_dict = [c \in DOMAIN cluster_to_input_row |-> ZeroStats]
    /\ pre_pc = "chunking"
    /\ out_file = <<>>
    /\ IdleAssign
    /\ IdleH5ad
    /\ IdleIter
    /\ IdleSelect
    /\ IdleSelectAll
    /\ IdleCache
    /\ IdleTranspose
    /\ IdleBinaryArray
    /\ IdleRunMapping
    /\ IdleTally
    /\ IdleAssemble
    /\ IdleStats
    /\ IdleAnnData
    /\ IdleOutputMap
    /\ IdleTaxonomy

SpecPrecomputeUnlisted == InitPrecomputeUnlisted /\ [][NextPrecompute]_vars

\* C29: when the stats are written, n_cells of every leaf is the number of
\* row indices the taxonomy lists for it, also when some rows of the
\* matrix are listed under no leaf.
C29_OnlyListedRowsCounted ==
    pre_pc = "written" =>
        \A c \in DOMAIN cluster_to_input_row :
            out_file[c].n_cells = Cardinality(cluster_to_input_row[c])

-----------------------------------------------------------------------------
(* TaxonomyTree as an object: what the caller holds after construction and *)
(* after each query, and what the caller can do to it                      *)

MaxReturned == 1
MaxListLen == 2
MaxTreeLeaves == 2

\* a list or dict the caller holds: a new object with its own value, or
\* the very list stored in self._data under path (level, node)
NewObject(kind, v) ==
    [kind |-> kind, value |-> v, shared |-> FALSE, path |-> <<>>]
SameObject(kind, d, path) ==
    [kind |-> kind, value |-> d[path[1]][path[2]], shared |-> TRUE,
     path |-> path]

\* the taxonomies the tree is built from
TaxonomyChoices ==
    {tree \in TreeChoices :
        Cardinality(UNION Range(tree)) <= MaxTreeLeaves}

\* the rows a leaf lists in the taxonomies drawn
RowsOfLeaf(l) == <<Rank(l)>>

\* the dict passed to the constructor: hierarchy, then per level a dict
\* node -> list of children (leaf -> list of rows at the leaf level)
TreeData(tree) ==
    [hierarchy |-> hierarchy,
     class |-> [c \in DOMAIN tree |-> SortNames(tree[c])],
     cluster |-> [l \in UNION {tree[c] : c \in DOMAIN tree} |->
                     RowsOfLeaf(l)]]

\* list(d.keys())
KeyList(d) == SortNames(DOMAIN d)

\* TaxonomyTree.leaf_level
leaf_level(d) == d.hierarchy[Len(d.hierarchy)]

\* the queries the claim names and their arguments on the tree d
TreeQueries(d) ==
    {[name |-> n, level |-> "None", node |-> "None"] :
        n \in {"hierarchy", "all_leaves", "leaf_to_rows", "all_parents",
               "children"}}
    \cup {[name |-> "nodes_at_level", level |-> l, node |-> "None"] :
            l \in Range(d.hierarchy)}
    \cup UNION {{[name |-> "children", level |-> l, node |-> n] :
                    n \in DOMAIN d[l]} : l \in Range(d.hierarchy)}
    \cup {[name |-> "rows_for_leaf", level |-> "None", node |-> n] :
            n \in DOMAIN d[leaf_level(d)]}

\* TaxonomyTree.all_parents: [None] + the (level, node) of every level
\* but the last
RECURSIVE ParentsOfLevels(_, _)
ParentsOfLevels(d, levels) ==
    IF levels = <<>> THEN <<>>
    ELSE LET nodes == KeyList(d[Head(levels)])
         IN  [k \in 1..Len(nodes) |-> <<Head(levels), nodes[k]>>]
             \o ParentsOfLevels(d, Tail(levels))

\* TaxonomyTree.rows_for_leaf: the list stored in self._data itself
rows_for_leaf(d, leaf_node) ==
    SameObject("rows", d, <<leaf_level(d), leaf_node>>)

\* TaxonomyTree.leaf_to_rows: a deep copy of the leaf level
leaf_to_rows(d) == NewObject("leaf_dict", d[leaf_level(d)])

\* what each query hands to the caller
Answer(d, q) ==
    CASE q.name = "hierarchy" -> NewObject("names", d.hierarchy)
      [] q.name = "nodes_at_level" -> NewObject("names", KeyList(d[q.level]))
      [] q.name = "children" ->
            IF q.level = "None"
            THEN NewObject("names", KeyList(d[d.hierarchy[1]]))
            ELSE NewObject(IF q.level = leaf_level(d) THEN "rows"
                           ELSE "names", d[q.level][q.node])
      [] q.name = "all_leaves" -> NewObject("names", KeyList(d[leaf_level(d)]))
      [] q.name = "leaf_to_rows" -> leaf_to_rows(d)
      [] q.name = "all_parents" ->
            NewObject("parents",
                      <<<<>>>> \o ParentsOfLevels(d,
                          SubSeq(d.hierarchy, 1, Len(d.hierarchy) - 1)))
      [] OTHER -> rows_for_leaf(d, q.node)

\* the value a later query returns, for every query
AllAnswers(d) == [q \in TreeQueries(d) |-> Answer(d, q).value]

\* what the caller can do to a list it holds: clear it, or append to it
ForeignRows == {7}
ListMutations(v, foreign) ==
    ({<<>>} \cup {Append(v, x) : x \in {y \in foreign : Len(v) < MaxListLen}})
        \ {v}
\* ... to a dict leaf -> rows: change one of its lists, or pop a key
LeafDictMutations(v) ==
    UNION {{[v EXCEPT ![k] = w] : w \in ListMutations(v[k], ForeignRows)} :
              k \in DOMAIN v}
    \cup {[j \in DOMAIN v \ {k} |-> v[j]] : k \in DOMAIN v}
\* ... to a dict like the constructor's: change its hierarchy list or its
\* leaf level
DataMutations(v) ==
    {[v EXCEPT !.hierarchy = w] : w \in ListMutations(v.hierarchy, {"zz"})}
    \cup {[v EXCEPT !.cluster = w] : w \in LeafDictMutations(v.cluster)}
Mutations(kind, v) ==
    CASE kind = "names" -> ListMutations(v, {"zz"})
      [] kind = "rows" -> ListMutations(v, ForeignRows)
      [] kind = "parents" -> ListMutations(v, {<<"zz", "zz">>})
      [] OTHER -> LeafDictMutations(v)

\* the value of an object the caller holds
ValueOf(h) ==
    IF h.shared THEN self_data[h.path[1]][h.path[2]] ELSE h.value

\* TaxonomyTree(data): self._data = copy.deepcopy(data), an object of its
\* own with the value of data
InitTaxonomy ==
    /\ \E tree \in TaxonomyChoices : caller_data = TreeData(tree)
    /\ self_data = caller_data
    /\ handed_out = <<>>
    /\ IdleAssign
    /\ IdleH5ad
    /\ IdleIter
    /\ IdlePrecompute
    /\ IdleSelect
    /\ IdleSelectAll
    /\ IdleCache
    /\ IdleTranspose
    /\ IdleBinaryArray
    /\ IdleRunMapping
    /\ IdleTally
    /\ IdleAssemble
    /\ IdleStats
    /\ IdleAnnData
    /\ IdleOutputMap

\* the caller calls one of the queries and keeps what it returns
CallQuery(q) ==
    /\ Len(handed_out) < MaxReturned
    /\ handed_out' = Append(handed_out, Answer(self_data, q))
    /\ UNCHANGED <<caller_data, self_data>>
    /\ UNCHANGED notTt

\* the caller changes the dict it passed to the constructor
MutateConstructorDict ==
    /\ \E w \in DataMutations(caller_data) : caller_data' = w
    /\ UNCHANGED <<self_data, handed_out>>
    /\ UNCHANGED notTt

\* the caller changes an object a query returned: the change lands in the
\* object itself, which is the list inside self._data when it is shared
MutateReturned(i) ==
    /\ \E w \in Mutations(handed_out[i].kind, ValueOf(handed_out[i])) :
          IF handed_out[i].shared
          THEN /\ self_data' =
                     [self_data EXCEPT
                         ![handed_out[i].path[1]][handed_out[i].path[2]] = w]
               /\ UNCHANGED handed_out
          ELSE /\ handed_out' = [handed_out EXCEPT ![i].value = w]
               /\ UNCHANGED self_data
    /\ UNCHANGED caller_data
    /\ UNCHANGED notTt

NextTaxonomy ==
    \/ \E q \in TreeQueries(self_data) : CallQuery(q)
    \/ MutateConstructorDict
    \/ \E i \in DOMAIN handed_out : MutateReturned(i)

SpecTaxonomy == InitTaxonomy /\ [][NextTaxonomy]_vars

\* C30: nothing the caller does to the constructor's dict or to a value a
\* query handed_out changes what any later query on the tree returns.
C30_LaterQueriesUnchanged ==
    [][AllAnswers(self_data)' = AllAnswers(self_data)]_vars

====
